---- MODULE Spec2Model ----
(***************************************************************************)
(* Agent runtime of implementations/07_agent_skills: the step loop of      *)
(* Agent.run, the tool registry, the parallel tool dispatcher, the session *)
(* history and its compaction.                                             *)
(*                                                                         *)
(* Text is modelled as a sequence of tokens (each token a piece of a       *)
(* Python string), so that concatenation, joining and prefixes of strings  *)
(* are computed, not assumed.                                              *)
(***************************************************************************)
EXTENDS Naturals, Sequences, FiniteSets

VARIABLES
    _tools,             \* Agent._tool_registry._tools : name -> Tool
    max_steps,          \* Agent.max_steps
    max_prompt_tokens,  \* Agent.max_prompt_tokens
    _messages,          \* Session._messages
    pc,                 \* position of the control thread inside Agent.run
    step,               \* iterations of the for loop completed so far
    llm_output,         \* raw text returned by the current decision call
    usage,              \* usage.prompt_tokens reported by that call
    futures,            \* the futures submitted to the ThreadPoolExecutor
    tool_call_results,  \* the list filled by the as_completed loop
    final_response,     \* the value returned by Agent.run
    llm_calls,          \* history variable: decision model calls made
    compact_calls,      \* history variable: summarization model calls made
    last_prompt,        \* history variable: prompt of the last decision call
    turn_kinds,         \* history variable: kind of each decision output so far
    _tools_order,       \* iteration (insertion) order of the dict _tools
    system_prompt,      \* Agent.system_prompt
    registered,         \* history variable: the tools passed to register
    schemas,            \* the values returned by to_schemas since then
    heap_lists,         \* list objects: id -> sequence of dict ids
    heap_dicts,         \* dict objects: id -> [role, content]
    session_ref,        \* Session._messages as a reference to a list object
    snapshots,          \* the list objects a caller of the Session holds
    last_op,            \* history variable: the last Session operation
    current,            \* which of two concurrent runs the state shows
    other,              \* the frame and session of the other run
    _skills,            \* SkillRegistry._skills : name -> Skill
    skill_files,        \* the */SKILL.md files, in the order glob yields them
    skill_pos,          \* files SkillRegistry.register has gone through
    warnings,           \* the warnings register has printed
    init_pc,            \* position inside Agent.__init__
    load_results,       \* history variable: outcomes of direct load_skill calls
    compact_prompt,     \* history variable: input of the last summarization call
    compact_usage,      \* usage reported by the last summarization call
    session_file,       \* FileSession: what <session_dir>/<id>.json holds
    fs_id,              \* FileSession.id
    fs_state,           \* FileSession: position in the object's life
    created_at,         \* FileSession.created_at
    max_retries,        \* call_llm_with_schema: its max_retries argument
    schema_messages,    \* call_llm_with_schema: its local `messages`
    attempt,            \* call_llm_with_schema: iterations of the loop begun
    schema_output,      \* call_llm_with_schema: its local `llm_output`
    last_error,         \* call_llm_with_schema: its local `last_error`
    schema_pc,          \* call_llm_with_schema: position in the call
    schema_result,      \* call_llm_with_schema: the value returned or raised
    schema_calls,       \* history variable: call_llm calls made
    schema_prompt       \* history variable: messages of the last call_llm call

\* the attributes of the Agent object
agent_vars == <<_tools, _tools_order, system_prompt, max_steps,
                max_prompt_tokens>>

\* the locals of one Agent.run call and the session it was given
run_vars == <<_messages, pc, step, llm_output, usage, futures,
              tool_call_results, final_response, llm_calls, compact_calls,
              last_prompt, turn_kinds>>

\* the registry calls made outside a run
registry_vars == <<registered, schemas>>

\* the Session object seen as references
heap_vars == <<heap_lists, heap_dicts, session_ref, snapshots, last_op>>

\* the other of two concurrent runs
thread_vars == <<current, other>>

\* the SkillRegistry and the construction of the Agent
skill_vars == <<_skills, skill_files, skill_pos, warnings, init_pc,
                load_results>>

\* what is recorded about summarization calls
hist_vars == <<compact_prompt, compact_usage>>

\* a FileSession and its file
file_vars == <<session_file, fs_id, fs_state, created_at>>

\* the locals of one call_llm_with_schema call
schema_vars == <<max_retries, schema_messages, attempt, schema_output,
                 last_error, schema_pc, schema_result, schema_calls,
                 schema_prompt>>

more_vars == <<skill_vars, hist_vars, file_vars, schema_vars>>

aux_vars == <<registry_vars, heap_vars, thread_vars, more_vars>>

\* aux_vars without hist_vars
rest_vars == <<registry_vars, heap_vars, thread_vars, skill_vars, file_vars,
               schema_vars>>

vars == <<agent_vars, run_vars, aux_vars>>

-----------------------------------------------------------------------------
(* Bounds and program constants *)

\* max_steps ranges over 0..MaxStepsBound
MaxStepsBound == 2

\* the largest number of items of an output of BatchOutputs
MaxBatch == 2

\* the default of Agent.__init__(max_prompt_tokens=...)
DefaultMaxPromptTokens == 100000

\* max_workers of ThreadPoolExecutor(): the library default
\* min(32, cpu_count + 4), scaled down so that a batch can exceed it
PoolMaxWorkers == 2

-----------------------------------------------------------------------------
(* Text *)

NL == "\n"

NoText == << >>

RECURSIVE Concat(_)
Concat(texts) ==
    IF texts = << >> THEN NoText ELSE Head(texts) \o Concat(Tail(texts))

\* sep.join(texts)
RECURSIVE Join(_, _)
Join(sep, texts) ==
    IF texts = << >> THEN NoText
    ELSE IF Len(texts) = 1 THEN texts[1]
    ELSE texts[1] \o <<sep>> \o Join(sep, Tail(texts))

StartsWith(text, prefix) ==
    /\ Len(text) >= Len(prefix)
    /\ SubSeq(text, 1, Len(prefix)) = prefix

MaxStepReached == <<"Max step reached">>

-----------------------------------------------------------------------------
(* Skills (SkillRegistry) *)

\* The SKILL.md files of the skill directory, as the parser sees them:
\* matched = the front-matter regex matched, header = the keys of the YAML
\* header.
SkillFiles ==
    << [readable |-> TRUE, matched |-> TRUE,
        header |-> {"name", "description"},
        name |-> "report", description |-> <<"how to write a report">>,
        content |-> <<"report instructions">>],
       [readable |-> TRUE, matched |-> TRUE,  header |-> {"name"},
        name |-> "broken", description |-> NoText,
        content |-> <<"never loaded">>],
       [readable |-> TRUE, matched |-> FALSE, header |-> {},
        name |-> "plain", description |-> NoText,
        content |-> <<"no front matter">>] >>

\* What one iteration of the loop of SkillRegistry.register does with a
\* file: f.read() raises on a file that cannot be decoded (outside the
\* try), a file the regex does not match is passed over, a header without
\* a key raises inside the try and is reported, anything else is stored.
SkillOutcome(f) ==
    IF ~f.readable THEN "raise"
    ELSE IF ~f.matched THEN "skip"
    ELSE IF ~({"name", "description"} \subseteq f.header) THEN "warn"
    ELSE "register"

\* Skill(name=..., description=..., content=...)
SkillOf(f) ==
    [name |-> f.name, description |-> f.description, content |-> f.content]

\* self._skills[skill.name] = skill
SkillStore(skills, f) ==
    [n \in DOMAIN skills \cup {f.name} |->
        IF n = f.name THEN SkillOf(f) ELSE skills[n]]

\* print(f"Warning: failed to parse {skill_file}: {e}")
SkillWarning(f) == <<"Warning: failed to parse ", f.name>>

\* the warnings printed for a list of files
RECURSIVE SkillWarnings(_)
SkillWarnings(files) ==
    IF files = << >> THEN << >>
    ELSE (IF SkillOutcome(Head(files)) = "warn"
          THEN <<SkillWarning(Head(files))>> ELSE << >>)
            \o SkillWarnings(Tail(files))

\* SkillRegistry.register: fold the files into the name -> Skill dict,
\* skipping files that do not match or whose header lacks a key.
RECURSIVE SkillRegistryRegister(_, _)
SkillRegistryRegister(skills, files) ==
    IF files = << >> THEN skills
    ELSE LET f == Head(files)
             next == IF SkillOutcome(f) = "register"
                     THEN SkillStore(skills, f)
                     ELSE skills
         IN  SkillRegistryRegister(next, Tail(files))

EmptyDict == [n \in {} |-> n]

-----------------------------------------------------------------------------
(* Tool handlers: the functions wrapped by the registered tools.           *)
(* A handler outcome is [raised, value]: the returned value, or the text   *)
(* of the exception it raised.                                             *)

\* str.lower() on the location values used here
Lower(v) == IF v = "Beijing" THEN "beijing" ELSE v

get_weather(location) ==
    IF Lower(location) = "los angeles"
    THEN [raised |-> FALSE, value |-> <<"sunny, 20 degrees">>]
    ELSE IF Lower(location) = "beijing"
    THEN [raised |-> FALSE, value |-> <<"cloudy, 5 degrees">>]
    ELSE [raised |-> TRUE,  value |-> <<"Unknown location">>]

\* the files that open() finds
Files == {"notes.txt"}

read_file(file_path) ==
    IF file_path \in Files
    THEN [raised |-> FALSE, value |-> <<"contents of ", file_path>>]
    ELSE [raised |-> TRUE,  value |-> <<"No such file: ", file_path>>]

load_skillReturnsNone(skill_name) ==
    IF skill_name \in DOMAIN _skills
    THEN [raised |-> FALSE, value |-> _skills[skill_name].content]
    ELSE [raised |-> FALSE, value |-> <<"None">>]

\* the closure of SkillRegistry.create_load_skill_tool
load_skill(skill_name) ==
    IF skill_name \in DOMAIN _skills
    THEN [raised |-> FALSE, value |-> _skills[skill_name].content]
    ELSE [raised |-> TRUE,
          value |-> <<"Skill ", skill_name, " not found">>]

\* self.function(**parameters_dict)
CallFunction(function, arg) ==
    CASE function = "get_weather" -> get_weather(arg)
      [] function = "read_file"   -> read_file(arg)
      [] function = "load_skill"  -> load_skill(arg)

-----------------------------------------------------------------------------
(* Tool and ToolRegistry *)

GetLoadSkillDocHeading(names) ==
    <<"Load a skill. The available skills are:", NL>>

\* SkillRegistry._get_load_skill_doc: the heading, then one block per skill
RECURSIVE GetLoadSkillDoc(_)
GetLoadSkillDoc(names) ==
    IF names = {}
    THEN <<"Load a skill. The available skills are:", NL>>
    ELSE LET n == CHOOSE m \in names : TRUE
         IN  GetLoadSkillDoc(names \ {n})
                \o <<NL, NL, "## Skill: ", n, NL>> \o _skills[n].description

\* str(function.__doc__)
FunctionDoc(function) ==
    CASE function = "get_weather" -> <<"get weather at the specified location">>
      [] function = "read_file"   -> <<"read file from a given path into string">>
      [] function = "load_skill"  -> GetLoadSkillDoc(DOMAIN _skills)

\* Tool.from_function: the name is the function's __name__; parameters is
\* the pydantic model, here the name of its one required str field.
ToolFromFunction(function, parameters) ==
    [name |-> function, description |-> FunctionDoc(function),
     parameters |-> parameters, function |-> function]

\* Tool.to_schema
ToSchema(tool) ==
    [name |-> tool.name, description |-> tool.description,
     parameters |-> tool.parameters]

\* A parameter string as the model writes it: json = it is a JSON object,
\* field/value = the one key it carries.
\* self.parameters.model_validate_json(parameters_str) succeeds
ModelValidateJson(parameters, parameters_str) ==
    /\ parameters_str.json
    /\ parameters_str.field = parameters

ValidationError(parameters_str) ==
    IF parameters_str.json THEN "missing" ELSE "json_invalid"

\* The outcome of an execute call: exc = an exception left the call,
\* value = the returned string (or the exception text), invoked = how many
\* times the tool's function was called.
ToolExecuteUnguarded(tool, parameters_str) ==
    IF ~ModelValidateJson(tool.parameters, parameters_str)
    THEN [exc |-> FALSE, invoked |-> 0,
          value |-> <<"Invalid tool call parameters: ",
                      ValidationError(parameters_str)>>]
    ELSE LET r == CallFunction(tool.function, parameters_str.value)
         IN  [exc |-> r.raised, invoked |-> 1, value |-> r.value]

ToolExecuteSilent(tool, parameters_str) ==
    IF ~ModelValidateJson(tool.parameters, parameters_str)
    THEN [exc |-> FALSE, invoked |-> 0,
          value |-> <<"Invalid tool call parameters: ",
                      ValidationError(parameters_str)>>]
    ELSE LET r == CallFunction(tool.function, parameters_str.value)
         IN  [exc |-> FALSE, invoked |-> 1,
              value |-> IF r.raised THEN <<"None">> ELSE r.value]

ToolExecuteUnvalidated(tool, parameters_str) ==
    LET r == CallFunction(tool.function, parameters_str.value)
    IN  [exc |-> FALSE, invoked |-> 1,
         value |-> IF r.raised THEN <<"Tool call failed: ">> \o r.value
                   ELSE r.value]

\* Tool.execute
ToolExecute(tool, parameters_str) ==
    IF ~ModelValidateJson(tool.parameters, parameters_str)
    THEN [exc |-> FALSE, invoked |-> 0,
          value |-> <<"Invalid tool call parameters: ",
                      ValidationError(parameters_str)>>]
    ELSE LET r == CallFunction(tool.function, parameters_str.value)
         IN  [exc |-> FALSE, invoked |-> 1,
              value |-> IF r.raised THEN <<"Tool call failed: ">> \o r.value
                        ELSE r.value]

\* ToolRegistry.register
RegisterKeepFirst(tools, tool) ==
    [n \in DOMAIN tools \cup {tool.name} |->
        IF n \in DOMAIN tools THEN tools[n] ELSE tool]

\* ToolRegistry.register
Register(tools, tool) ==
    [n \in DOMAIN tools \cup {tool.name} |->
        IF n = tool.name THEN tool ELSE tools[n]]

RegistryExecuteUnchecked(tools, name, parameters) ==
    IF name \in DOMAIN tools
    THEN ToolExecute(tools[name], parameters)
    ELSE [exc |-> TRUE, invoked |-> 0, value |-> <<"KeyError: ", name>>]

\* ToolRegistry.execute
RegistryExecute(tools, name, parameters) ==
    IF name \in DOMAIN tools
    THEN ToolExecute(tools[name], parameters)
    ELSE [exc |-> FALSE, invoked |-> 0,
          value |-> <<"Tool '", name, "' not registered">>]

\* ToolRegistry.register, seen from the dict's iteration order: a new key
\* goes last, an existing key keeps its place
RegisterOrder(order, tool) ==
    IF \E i \in 1..Len(order) : order[i] = tool.name
    THEN order
    ELSE Append(order, tool.name)

\* The code points of the characters of the tool names in use
CodePoints(name) ==
    CASE name = "get_weather" ->
            <<103, 101, 116, 95, 119, 101, 97, 116, 104, 101, 114>>
      [] name = "read_file"   -> <<114, 101, 97, 100, 95, 102, 105, 108, 101>>
      [] name = "load_skill"  ->
            <<108, 111, 97, 100, 95, 115, 107, 105, 108, 108>>
      [] name = "read"        -> <<114, 101, 97, 100>>
      [] name = "Zip"         -> <<90, 105, 112>>

\* a < b for Python strings: the first differing character decides, a
\* proper prefix comes first
RECURSIVE StrLess(_, _)
StrLess(a, b) ==
    IF b = << >> THEN FALSE
    ELSE IF a = << >> THEN TRUE
    ELSE IF Head(a) # Head(b) THEN Head(a) < Head(b)
    ELSE StrLess(Tail(a), Tail(b))

\* sorted(names)
RECURSIVE Sorted(_)
Sorted(names) ==
    IF names = {} THEN << >>
    ELSE LET first == CHOOSE n \in names :
                         \A m \in names \ {n} :
                            StrLess(CodePoints(n), CodePoints(m))
         IN  <<first>> \o Sorted(names \ {first})

ToSchemasUnsorted(tools, order) ==
    [i \in 1..Len(order) |-> ToSchema(tools[order[i]])]

\* ToolRegistry.to_schemas: order is the iteration order of the dict
ToSchemas(tools, order) ==
    LET names == Sorted({order[i] : i \in 1..Len(order)})
    IN  [i \in 1..Len(names) |-> ToSchema(tools[names[i]])]

\* Agent.__init__: the user tools, then load_skill when a skill was parsed
RECURSIVE RegisterAll(_, _)
RegisterAll(tools, list) ==
    IF list = << >> THEN tools
    ELSE RegisterAll(Register(tools, Head(list)), Tail(list))

UserTools ==
    << ToolFromFunction("get_weather", "location"),
       ToolFromFunction("read_file", "file_path") >>

CreateLoadSkillTool == ToolFromFunction("load_skill", "skill_name")

AgentTools ==
    LET user == RegisterAll(EmptyDict, UserTools)
    IN  IF DOMAIN _skills # {} THEN Register(user, CreateLoadSkillTool)
        ELSE user

RECURSIVE RegisterOrderAll(_, _)
RegisterOrderAll(order, list) ==
    IF list = << >> THEN order
    ELSE RegisterOrderAll(RegisterOrder(order, Head(list)), Tail(list))

\* the iteration order of the registry built by Agent.__init__
AgentToolsOrder ==
    LET user == RegisterOrderAll(<< >>, UserTools)
    IN  IF DOMAIN _skills # {} THEN RegisterOrder(user, CreateLoadSkillTool)
        ELSE user

-----------------------------------------------------------------------------
(* Model output (LLMOutput) *)

\* Items of a raw model output, as JSON objects
Msg(text) == [type |-> "message", text |-> text]

Call(id, name, parameters) ==
    [type |-> "tool_call", id |-> id, name |-> name,
     parameters |-> parameters]

\* a tool_call object without its required name and parameters
TruncatedCall(id) == [type |-> "tool_call", id |-> id]

Params(field, value) == [json |-> TRUE, field |-> field, value |-> value]

NotJsonParams == [json |-> FALSE, field |-> "", value |-> ""]

\* a raw output: json = the text is a JSON document
Output(content) == [json |-> TRUE, content |-> content]

NotJsonOutput == [json |-> FALSE, content |-> << >>]

\* an item validates as Message or as ToolCall
ItemValid(item) ==
    \/ item.type = "message" /\ "text" \in DOMAIN item
    \/ item.type = "tool_call"
         /\ {"id", "name", "parameters"} \subseteq DOMAIN item

\* LLMOutput.model_validate_json(llm_output) succeeds
LLMOutputValid(output) ==
    /\ output.json
    /\ \A i \in 1..Len(output.content) : ItemValid(output.content[i])

LLMOutputError(output) ==
    IF output.json THEN "missing" ELSE "json_invalid"

IsToolCall(item) == item.type = "tool_call"

IsMessage(item) == item.type = "message"

\* returned_tool_calls and returned_messages of Agent.run
ReturnedToolCalls(output) == SelectSeq(output.content, IsToolCall)

ReturnedMessages(output) == SelectSeq(output.content, IsMessage)

MessageTexts(output) ==
    [i \in 1..Len(ReturnedMessages(output)) |-> ReturnedMessages(output)[i].text]

\* The outputs the model may give at a step of the loop
LoopOutputs ==
    { NotJsonOutput,
      Output(<<TruncatedCall("c1")>>),
      Output(<< >>),
      Output(<<Msg(<<"a">>)>>),
      Output(<<Msg(<<"a">>), Msg(<<"b">>)>>),
      Output(<<Msg(MaxStepReached)>>),
      Output(<<Call("c1", "get_weather", Params("location", "Beijing"))>>),
      Output(<<Call("c1", "get_weather", Params("location", "los angeles")),
               Call("c2", "get_weather", Params("location", "mars"))>>),
      Output(<<Msg(<<"a">>), Call("c1", "get_weather", NotJsonParams)>>),
      Output(<<Call("c1", "send_email", Params("to", "bob")),
               Call("c2", "load_skill", Params("skill_name", "report"))>>),
      Output(<<Call("c1", "load_skill", Params("skill_name", "broken")),
               Call("c2", "read_file", Params("path", "notes.txt"))>>) }

\* The items of a batch: one message, one truncated call, and every call of a known id to a
\* tool that succeeds, raises, rejects its parameters or is not registered
BatchCalls ==
    { Call(id, k[1], k[2]) :
        id \in {"c1", "c2", "c3"},
        k \in { <<"get_weather", Params("location", "beijing")>>,
                <<"get_weather", Params("location", "mars")>>,
                <<"get_weather", NotJsonParams>>,
                <<"send_email", Params("to", "bob")>> } }

BatchItems == {Msg(<<"a">>), TruncatedCall("c1")} \cup BatchCalls

\* every valid output of at most MaxBatch items
BatchOutputs ==
    { Output(content) :
        content \in UNION { [1..n -> BatchItems] : n \in 0..MaxBatch } }

\* usage.prompt_tokens as the provider may report it: under, at and over
\* the budget
PromptTokens(budget) == {budget - 1, budget, budget + 1}

\* usage.prompt_tokens of a summarization call: under or over the budget
SummaryTokens(budget) == {budget - 1, budget + 1}

Queries == { <<"What is 2+2?">> }

\* the queries of the second of two runs
OtherQueries == { <<"What is 3+3?">> }

\* the user_query argument of run number r
QueriesFor(r) == IF r = 1 THEN Queries ELSE OtherQueries

Summaries == { <<"summary">> }

-----------------------------------------------------------------------------
(* Session *)

AddMessagePrepend(messages, role, content) ==
    <<[role |-> role, content |-> content]>> \o messages

\* Session.add_message
AddMessage(messages, role, content) ==
    Append(messages, [role |-> role, content |-> content])

SetMessagesExtend(messages, new) == messages \o new

SetMessagesEmpty(messages, new) == << >>

\* Session.set_messages
SetMessages(messages, new) == new

\* Session.get_messages
GetMessages(messages) == messages

-----------------------------------------------------------------------------
(* FileSession: a Session that writes itself to <session_dir>/<id>.json.    *)
(* Strings are sequences of characters here; a JSON document is its tree    *)
(* with every string as the literal json.dumps writes for it.               *)

Quote == "\""

Backslash == "\\"

JsonEscapeNone(chars) == chars

\* the body of the literal json.dumps writes for a string
RECURSIVE JsonEscape(_)
JsonEscape(chars) ==
    IF chars = << >> THEN << >>
    ELSE LET c == Head(chars)
             e == IF c = Quote THEN <<Backslash, Quote>>
                  ELSE IF c = Backslash THEN <<Backslash, Backslash>>
                  ELSE IF c = NL THEN <<Backslash, "n">>
                  ELSE <<c>>
         IN  e \o JsonEscape(Tail(chars))

JsonUnescapeNone(body) == body

\* the string json.load reads from the body of a literal
RECURSIVE JsonUnescape(_)
JsonUnescape(body) ==
    IF body = << >> THEN << >>
    ELSE IF Head(body) = Backslash /\ Len(body) >= 2
         THEN LET c == body[2]
                  d == IF c = "n" THEN NL ELSE c
              IN  <<d>> \o JsonUnescape(Tail(Tail(body)))
         ELSE <<Head(body)>> \o JsonUnescape(Tail(body))

JsonDumpsString(chars) == <<Quote>> \o JsonEscape(chars) \o <<Quote>>

JsonLoadsString(literal) ==
    JsonUnescape(SubSeq(literal, 2, Len(literal) - 1))

\* the datetime of an object that is not there
NoDate == [date |-> "", time |-> "", microsecond |-> "000000"]

\* datetime.now() at construction: on a whole second, or not
Clock ==
    { [date |-> "2025-01-02", time |-> "03:04:05", microsecond |-> "000000"],
      [date |-> "2025-01-02", time |-> "03:04:05", microsecond |-> "000007"] }

\* datetime.isoformat: the fraction is left out when microsecond is 0
IsoFormat(dt) ==
    <<dt.date, "T", dt.time>>
        \o (IF dt.microsecond = "000000" THEN << >>
            ELSE <<".", dt.microsecond>>)

\* datetime.fromisoformat
FromIsoFormat(chars) ==
    [date |-> chars[1], time |-> chars[3],
     microsecond |-> IF Len(chars) >= 5 THEN chars[5] ELSE "000000"]

\* json.dumps(session)
JsonDumps(session) ==
    [id |-> JsonDumpsString(session.id),
     created_at |-> JsonDumpsString(session.created_at),
     messages |->
        [i \in 1..Len(session.messages) |->
            [role |-> JsonDumpsString(<<session.messages[i].role>>),
             content |-> JsonDumpsString(session.messages[i].content)]]]

\* json.load(f)
JsonLoad(text) ==
    [id |-> JsonLoadsString(text.id),
     created_at |-> JsonLoadsString(text.created_at),
     messages |->
        [i \in 1..Len(text.messages) |->
            [role |-> JsonLoadsString(text.messages[i].role)[1],
             content |-> JsonLoadsString(text.messages[i].content)]]]

\* FileSession.asjson
asjson(id, created, messages) ==
    JsonDumps([id |-> id, created_at |-> IsoFormat(created),
               messages |-> messages])

\* Path(self.session_dir, f"{self.id}.json")
SessionFileName(id) == id \o <<".json">>

\* no file in session_dir
NoFile ==
    [exists |-> FALSE, name |-> NoText, complete |-> FALSE,
     text |-> asjson(NoText, NoDate, << >>)]

\* open(session_file, 'w') went through and f.write did not
Truncated(id) ==
    [exists |-> TRUE, name |-> SessionFileName(id), complete |-> FALSE,
     text |-> asjson(NoText, NoDate, << >>)]

saveKeepsFile(file, id, created, messages) ==
    IF file.exists THEN file
    ELSE [exists |-> TRUE, name |-> SessionFileName(id), complete |-> TRUE,
          text |-> asjson(id, created, messages)]

\* FileSession.save, when it returns
save(file, id, created, messages) ==
    [exists |-> TRUE, name |-> SessionFileName(id), complete |-> TRUE,
     text |-> asjson(id, created, messages)]

\* FileSession.save, when open or f.write raises OSError
SaveFailures(file, id) == {file, Truncated(id)}

\* session_file.exists() of FileSession.load
Exists(file, session_id) ==
    /\ file.exists
    /\ file.name = SessionFileName(session_id)

\* FileSession.list_sessions: session_file.name of every *.json file
ListSessions(file) ==
    IF file.exists THEN <<file.name>> ELSE << >>

------------------------------------------------------------------------------
(* call_llm_with_schema of 01_structured_output: schema in the prompt,     *)
(* parse, validate, retry with the error fed back.                          *)

\* a response text: json = it is a JSON document, answer = its answer field
SchemaOutput(json, answer) == [json |-> json, answer |-> answer]

NoSchemaOutput == SchemaOutput(FALSE, "")

\* the responses of the model: a valid one, one that breaks the Literal of
\* the schema, one that is not JSON
SchemaOutputs ==
    { SchemaOutput(TRUE, "C"), SchemaOutput(TRUE, "E"),
      SchemaOutput(FALSE, "") }

\* how a call ended: kind "value" with the parsed answer, or kind
\* "ValueError" with the two values of its message
SchemaResult(kind, answer, attempts, error) ==
    [kind |-> kind, answer |-> answer, attempts |-> attempts, error |-> error]

NoSchemaResult == SchemaResult("none", "", 0, "None")

\* schema.model_validate_json(llm_output) succeeds, for MultiChoice
SchemaValid(output) ==
    /\ output.json
    /\ output.answer \in {"A", "B", "C", "D"}

\* the ValidationError it raises otherwise
SchemaError(output) ==
    IF output.json THEN "literal_error" ELSE "json_invalid"

\* SCHEMA_PROMPT_TEMPLATE.format(user_query=..., schema=...)
SchemaPrompt(user_query) ==
    user_query \o <<NL, NL, "Respond with JSON matching this schema: ",
                    "MultiChoice", NL,
                    "Return only valid JSON, no other text.">>

\* the feedback appended after a failed validation
ErrorFeedback(e) ==
    <<"Invalid JSON. Error: ", e, ". Please fix and try again.">>

------------------------------------------------------------------------------
(* Agent *)

SystemPrompt == <<"You are provided the following tools to use:">>

\* Agent._build_system_prompt
BuildSystemPrompt(tools, order) ==
    SystemPrompt \o <<ToSchemas(tools, order)>>

BuildMessagesDeveloperLast(messages) ==
    GetMessages(messages)
        \o <<[role |-> "developer", content |-> system_prompt]>>

\* Agent._build_messages
BuildMessages(messages) ==
    <<[role |-> "developer", content |-> system_prompt]>>
        \o GetMessages(messages)

IsOverLimitStrict(prompt_tokens, budget) == prompt_tokens > budget

\* Agent._is_over_limit
IsOverLimit(prompt_tokens, budget) == prompt_tokens >= budget

\* the messages argument of the model call of Agent._compact_session
CompactPrompt(session_messages) ==
    <<[role |-> "user",
       content |-> <<"Session history: ", session_messages, NL, NL,
                     "Summarize the session history into a compact one. Return the compact history only.">>]>>

\* the string returned by Agent._execute_tools_parallel
ToolCallResults(results) == <<"Tool call results: ", results>>

InvalidResponse(output) ==
    <<"Invalid response format: ", LLMOutputError(output)>>

CompactHistory(summary) == <<"[COMPACT SESSION HISTORY]: ">> \o summary

NoOutput == Output(<< >>)

\* what the loop does with an output
TurnKind(output) ==
    IF ~LLMOutputValid(output) THEN "invalid"
    ELSE IF ReturnedToolCalls(output) # << >> THEN "tool_calls"
    ELSE "final"

InRangeInclusive(i, n) == i <= n

\* for step in range(n): the body runs for step = 0 .. n-1
InRange(i, n) == i < n

\* the frame of a run that has not started, and its empty session
NewFrame ==
    [_messages |-> << >>, pc |-> "idle", step |-> 0, llm_output |-> NoOutput,
     usage |-> 0, futures |-> << >>, tool_call_results |-> << >>,
     final_response |-> NoText, llm_calls |-> 0, compact_calls |-> 0,
     last_prompt |-> << >>, turn_kinds |-> << >>]

\* no registry call made outside __init__
RegistryInit ==
    /\ registered = << >>
    /\ schemas = << >>

\* one Session with an empty list, one run, no summarization call made, no
\* FileSession constructed
SessionInit ==
    /\ heap_lists = <<NoText>>
    /\ heap_dicts = << >>
    /\ session_ref = 1
    /\ snapshots = {}
    /\ last_op = "init"
    /\ current = 1
    /\ other = NewFrame
    /\ compact_prompt = << >>
    /\ compact_usage = 0
    /\ session_file = NoFile
    /\ fs_id = NoText
    /\ fs_state = "none"
    /\ created_at = NoDate
    /\ max_retries = 0
    /\ schema_messages = << >>
    /\ attempt = 0
    /\ schema_output = NoSchemaOutput
    /\ last_error = "None"
    /\ schema_pc = "idle"
    /\ schema_result = NoSchemaResult
    /\ schema_calls = 0
    /\ schema_prompt = << >>

\* no SkillRegistry: Agent(skill_dir=None), or no Agent at all
NoSkillsInit ==
    /\ _skills = EmptyDict
    /\ skill_files = << >>
    /\ skill_pos = 0
    /\ warnings = << >>
    /\ init_pc = "built"
    /\ load_results = << >>

\* SkillRegistry(skill_dir) has gone through the files of SkillFiles
SkillsInit ==
    /\ _skills = SkillRegistryRegister(EmptyDict, SkillFiles)
    /\ skill_files = SkillFiles
    /\ skill_pos = Len(SkillFiles)
    /\ warnings = SkillWarnings(SkillFiles)
    /\ init_pc = "built"
    /\ load_results = << >>

AuxInit ==
    /\ RegistryInit
    /\ SessionInit

\* no run started: run() has not been entered, Session() is empty
RunInit ==
    /\ _messages = << >>
    /\ pc = "idle"
    /\ step = 0
    /\ llm_output = NoOutput
    /\ usage = 0
    /\ futures = << >>
    /\ tool_call_results = << >>
    /\ final_response = NoText
    /\ llm_calls = 0
    /\ compact_calls = 0
    /\ last_prompt = << >>
    /\ turn_kinds = << >>

Init ==
    /\ AuxInit
    /\ SkillsInit
    /\ _tools = AgentTools
    /\ _tools_order = AgentToolsOrder
    /\ system_prompt = BuildSystemPrompt(AgentTools, AgentToolsOrder)
    /\ max_steps \in 0..MaxStepsBound
    /\ max_prompt_tokens = DefaultMaxPromptTokens
    /\ RunInit

\* run(): session.add_message(role="user", content=user_query)
Run ==
    /\ pc = "idle"
    /\ \E user_query \in QueriesFor(current) :
          _messages' = AddMessage(_messages, "user", user_query)
    /\ pc' = "loop"
    /\ UNCHANGED <<agent_vars, aux_vars, step, llm_output, usage, futures,
                   tool_call_results, final_response, llm_calls,
                   compact_calls, last_prompt, turn_kinds>>

\* for step in range(self.max_steps):
\*     llm_output, usage = self._call_llm(self._build_messages(session))
CallLLM(outputs) ==
    /\ pc = "loop"
    /\ InRange(step, max_steps)
    /\ \E o \in outputs, u \in PromptTokens(max_prompt_tokens) :
          /\ llm_output' = o
          /\ usage' = u
          /\ turn_kinds' = Append(turn_kinds, TurnKind(o))
    /\ last_prompt' = BuildMessages(_messages)
    /\ llm_calls' = llm_calls + 1
    /\ futures' = << >>
    /\ tool_call_results' = << >>
    /\ pc' = "check_limit"
    /\ UNCHANGED <<agent_vars, aux_vars, _messages, step, final_response,
                   compact_calls>>

MaxStepsExitStalls ==
    /\ pc = "loop"
    /\ ~InRange(step, max_steps)
    /\ UNCHANGED vars

\* the loop ran max_steps times: return "Max step reached"
MaxStepsExit ==
    /\ pc = "loop"
    /\ ~InRange(step, max_steps)
    /\ final_response' = MaxStepReached
    /\ pc' = "done"
    /\ UNCHANGED <<agent_vars, aux_vars, _messages, step, llm_output, usage, futures,
                   tool_call_results, llm_calls, compact_calls, last_prompt, turn_kinds>>

CompactSessionAfterAppend ==
    /\ pc = "check_limit"
    /\ IsOverLimit(usage, max_prompt_tokens)
    /\ \E compact_messages \in Summaries :
          _messages' = SetMessages(
              AddMessage(_messages, "assistant", llm_output),
              <<[role |-> "user", content |-> CompactHistory(compact_messages)]>>)
    /\ compact_calls' = compact_calls + 1
    /\ pc' = "validate"
    /\ UNCHANGED <<agent_vars, aux_vars, step, llm_output, usage, futures,
                   tool_call_results, final_response, llm_calls, last_prompt, turn_kinds>>

\* if self._is_over_limit(usage): self._compact_session(session), whose
\* model call returns compact_messages and a usage that is dropped (`_`)
CompactSession ==
    /\ pc = "check_limit"
    /\ IsOverLimit(usage, max_prompt_tokens)
    /\ compact_prompt' = CompactPrompt(GetMessages(_messages))
    /\ \E compact_messages \in Summaries,
          u \in SummaryTokens(max_prompt_tokens) :
          /\ compact_usage' = u
          /\ _messages' = SetMessages(_messages,
                <<[role |-> "user",
                   content |-> CompactHistory(compact_messages)]>>)
    /\ compact_calls' = compact_calls + 1
    /\ pc' = "append"
    /\ UNCHANGED <<agent_vars, rest_vars, step, llm_output, usage, futures,
                   tool_call_results, final_response, llm_calls, last_prompt, turn_kinds>>

NoCompact ==
    /\ pc = "check_limit"
    /\ ~IsOverLimit(usage, max_prompt_tokens)
    /\ pc' = "append"
    /\ UNCHANGED <<agent_vars, aux_vars, _messages, step, llm_output, usage, futures,
                   tool_call_results, final_response, llm_calls,
                   compact_calls, last_prompt, turn_kinds>>

AddAssistantUnlessCompacted ==
    /\ pc = "append"
    /\ _messages' = IF usage >= max_prompt_tokens THEN _messages
                    ELSE AddMessage(_messages, "assistant", llm_output)
    /\ pc' = "validate"
    /\ UNCHANGED <<agent_vars, aux_vars, step, llm_output, usage, futures,
                   tool_call_results, final_response, llm_calls,
                   compact_calls, last_prompt, turn_kinds>>

\* session.add_message(role="assistant", content=llm_output)
AddAssistant ==
    /\ pc = "append"
    /\ _messages' = AddMessage(_messages, "assistant", llm_output)
    /\ pc' = "validate"
    /\ UNCHANGED <<agent_vars, aux_vars, step, llm_output, usage, futures,
                   tool_call_results, final_response, llm_calls,
                   compact_calls, last_prompt, turn_kinds>>

InvalidOutputSilent ==
    /\ pc = "validate"
    /\ ~LLMOutputValid(llm_output)
    /\ step' = step + 1
    /\ pc' = "loop"
    /\ UNCHANGED <<agent_vars, aux_vars, _messages, llm_output, usage, futures,
                   tool_call_results, final_response, llm_calls,
                   compact_calls, last_prompt, turn_kinds>>

InvalidOutputAborts ==
    /\ pc = "validate"
    /\ ~LLMOutputValid(llm_output)
    /\ pc' = "raised"
    /\ UNCHANGED <<agent_vars, aux_vars, _messages, step, llm_output, usage, futures,
                   tool_call_results, final_response, llm_calls,
                   compact_calls, last_prompt, turn_kinds>>

InvalidOutputCapped ==
    /\ pc = "validate"
    /\ ~LLMOutputValid(llm_output)
    /\ IF Len(turn_kinds) >= 2 /\ turn_kinds[Len(turn_kinds) - 1] = "invalid"
       THEN /\ pc' = "raised"
            /\ UNCHANGED <<_messages, step>>
       ELSE /\ _messages' = AddMessage(_messages, "user",
                                       InvalidResponse(llm_output))
            /\ step' = step + 1
            /\ pc' = "loop"
    /\ UNCHANGED <<agent_vars, aux_vars, llm_output, usage, futures, tool_call_results,
                   final_response, llm_calls, compact_calls, last_prompt,
                   turn_kinds>>

\* except Exception: add the diagnostic as a user turn; continue
InvalidOutput ==
    /\ pc = "validate"
    /\ ~LLMOutputValid(llm_output)
    /\ _messages' = AddMessage(_messages, "user", InvalidResponse(llm_output))
    /\ step' = step + 1
    /\ pc' = "loop"
    /\ UNCHANGED <<agent_vars, aux_vars, llm_output, usage, futures, tool_call_results,
                   final_response, llm_calls, compact_calls, last_prompt, turn_kinds>>

\* if returned_tool_calls: enter _execute_tools_parallel
StartToolCallsUnlessMessages ==
    /\ pc = "validate"
    /\ LLMOutputValid(llm_output)
    /\ ReturnedToolCalls(llm_output) # << >>
    /\ IF ReturnedMessages(llm_output) = << >>
       THEN /\ pc' = "submit"
            /\ UNCHANGED final_response
       ELSE /\ final_response' = Join(NL, MessageTexts(llm_output))
            /\ pc' = "done"
    /\ UNCHANGED <<agent_vars, aux_vars, _messages, step, llm_output, usage, futures,
                   tool_call_results, llm_calls, compact_calls, last_prompt,
                   turn_kinds>>

\* if returned_tool_calls: the dispatch branch of the loop
StartToolCalls ==
    /\ pc = "validate"
    /\ LLMOutputValid(llm_output)
    /\ ReturnedToolCalls(llm_output) # << >>
    /\ pc' = "submit"
    /\ UNCHANGED <<agent_vars, aux_vars, _messages, step, llm_output, usage, futures,
                   tool_call_results, final_response, llm_calls,
                   compact_calls, last_prompt, turn_kinds>>

ReturnFinalConcatenated ==
    /\ pc = "validate"
    /\ LLMOutputValid(llm_output)
    /\ ReturnedToolCalls(llm_output) = << >>
    /\ final_response' = Concat(MessageTexts(llm_output))
    /\ pc' = "done"
    /\ UNCHANGED <<agent_vars, aux_vars, _messages, step, llm_output, usage, futures,
                   tool_call_results, llm_calls, compact_calls, last_prompt,
                   turn_kinds>>

\* else: return "\n".join(msg.text for msg in returned_messages)
ReturnFinal ==
    /\ pc = "validate"
    /\ LLMOutputValid(llm_output)
    /\ ReturnedToolCalls(llm_output) = << >>
    /\ final_response' = Join(NL, MessageTexts(llm_output))
    /\ pc' = "done"
    /\ UNCHANGED <<agent_vars, aux_vars, _messages, step, llm_output, usage, futures,
                   tool_call_results, llm_calls, compact_calls, last_prompt, turn_kinds>>

-----------------------------------------------------------------------------
(* Agent._execute_tools_parallel *)

\* A future of the executor: queued until a worker thread takes it, running
\* while ToolRegistry.execute runs, done when its outcome is stored.
NewFuture(tool_call) ==
    [tool_call |-> tool_call, state |-> "queued", result |-> NoText,
     exc |-> FALSE, invoked |-> 0, collected |-> FALSE]

Running(futs) ==
    {i \in 1..Len(futs) : futs[i].state \in {"running", "hung"}}

\* executor.submit(self._tool_registry.execute, name, parameters), one call
\* of the dict comprehension at a time
Submit ==
    /\ pc = "submit"
    /\ LET calls == ReturnedToolCalls(llm_output)
           n == Len(futures)
       IN  /\ n < Len(calls)
           /\ futures' = Append(futures, NewFuture(calls[n + 1]))
           /\ pc' = IF n + 1 = Len(calls) THEN "collect" ELSE "submit"
    /\ UNCHANGED <<agent_vars, aux_vars, _messages, step, llm_output, usage,
                   tool_call_results, final_response, llm_calls,
                   compact_calls, last_prompt, turn_kinds>>

\* a worker thread of the pool takes a queued call
WorkerStart(i) ==
    /\ pc \in {"submit", "collect"}
    /\ i \in 1..Len(futures)
    /\ futures[i].state = "queued"
    /\ Cardinality(Running(futures)) < PoolMaxWorkers
    /\ futures' = [futures EXCEPT ![i].state = "running"]
    /\ UNCHANGED <<agent_vars, aux_vars, _messages, pc, step, llm_output, usage,
                   tool_call_results, final_response, llm_calls,
                   compact_calls, last_prompt, turn_kinds>>

WorkerFinishRetries(i) ==
    /\ pc \in {"submit", "collect"}
    /\ i \in 1..Len(futures)
    /\ futures[i].state = "running"
    /\ LET call == futures[i].tool_call
           r == RegistryExecute(_tools, call.name, call.parameters)
           failed == StartsWith(r.value, <<"Tool call failed: ">>)
       IN  futures' = [futures EXCEPT ![i].state = "done",
                                      ![i].result = r.value,
                                      ![i].exc = r.exc,
                                      ![i].invoked =
                                          IF failed THEN r.invoked + 1
                                          ELSE r.invoked]
    /\ UNCHANGED <<agent_vars, aux_vars, _messages, pc, step, llm_output, usage,
                   tool_call_results, final_response, llm_calls,
                   compact_calls, last_prompt, turn_kinds>>

\* the worker runs self._tool_registry.execute(name, parameters) and stores
\* its outcome in the future
WorkerFinish(i) ==
    /\ pc \in {"submit", "collect"}
    /\ i \in 1..Len(futures)
    /\ futures[i].state = "running"
    /\ LET call == futures[i].tool_call
           r == RegistryExecute(_tools, call.name, call.parameters)
       IN  futures' = [futures EXCEPT ![i].state = "done",
                                      ![i].result = r.value,
                                      ![i].exc = r.exc,
                                      ![i].invoked = r.invoked]
    /\ UNCHANGED <<agent_vars, aux_vars, _messages, pc, step, llm_output, usage,
                   tool_call_results, final_response, llm_calls,
                   compact_calls, last_prompt, turn_kinds>>

FuturesLookupByPosition(futs, i, n) == futs[n + 1].tool_call

\* function_call = futures[future]: the call a completed future was
\* submitted for (n results have been collected before it)
FuturesLookup(futs, i, n) == futs[i].tool_call

\* the results kept in a mapping from id to entry: a later entry of an id
\* takes the place of the earlier one
PutById(results, entry) ==
    IF \E j \in 1..Len(results) : results[j].id = entry.id
    THEN [j \in 1..Len(results) |->
            IF results[j].id = entry.id THEN entry ELSE results[j]]
    ELSE Append(results, entry)

CollectById(i) ==
    /\ pc = "collect"
    /\ i \in 1..Len(futures)
    /\ futures[i].state = "done"
    /\ ~futures[i].collected
    /\ futures' = [futures EXCEPT ![i].collected = TRUE]
    /\ pc' = pc
    /\ tool_call_results' =
         PutById(tool_call_results,
                 [id |-> futures[i].tool_call.id, result |-> futures[i].result])
    /\ UNCHANGED <<agent_vars, aux_vars, _messages, step, llm_output, usage,
                   final_response, llm_calls, compact_calls, last_prompt, turn_kinds>>

\* for future in as_completed(futures): result = future.result();
\* tool_call_results.append({"id": function_call.id, "result": result})
Collect(i) ==
    /\ pc = "collect"
    /\ i \in 1..Len(futures)
    /\ futures[i].state = "done"
    /\ ~futures[i].collected
    /\ futures' = [futures EXCEPT ![i].collected = TRUE]
    /\ IF futures[i].exc
       THEN /\ pc' = "raised"
            /\ UNCHANGED tool_call_results
       ELSE /\ pc' = pc
            /\ tool_call_results' =
                 Append(tool_call_results,
                    [id |-> FuturesLookup(futures, i,
                                          Len(tool_call_results)).id,
                     result |-> futures[i].result])
    /\ UNCHANGED <<agent_vars, aux_vars, _messages, step, llm_output, usage,
                   final_response, llm_calls, compact_calls, last_prompt, turn_kinds>>

AnyCollected(futs) == \E i \in 1..Len(futs) : futs[i].collected

\* the as_completed loop has yielded every future
AllCollected(futs) == \A i \in 1..Len(futs) : futs[i].collected

RECURSIVE AddEach(_, _)
AddEach(messages, results) ==
    IF results = << >> THEN messages
    ELSE AddEach(AddMessage(messages, "user", ToolCallResults(<<Head(results)>>)),
                 Tail(results))

AddToolResultsPerCall ==
    /\ pc = "collect"
    /\ AllCollected(futures)
    /\ _messages' = AddEach(_messages, tool_call_results)
    /\ step' = step + 1
    /\ pc' = "loop"
    /\ UNCHANGED <<agent_vars, aux_vars, llm_output, usage, futures, tool_call_results,
                   final_response, llm_calls, compact_calls, last_prompt, turn_kinds>>

\* return the results string; session.add_message(role="user", ...)
AddToolResults ==
    /\ pc = "collect"
    /\ AllCollected(futures)
    /\ _messages' = AddMessage(_messages, "user",
                               ToolCallResults(tool_call_results))
    /\ step' = step + 1
    /\ pc' = "loop"
    /\ UNCHANGED <<agent_vars, aux_vars, llm_output, usage, futures, tool_call_results,
                   final_response, llm_calls, compact_calls, last_prompt, turn_kinds>>

-----------------------------------------------------------------------------
(* Specification *)

\* One step of the program, the model answering from `outputs`
Step(outputs) ==
    \/ Run
    \/ CallLLM(outputs)
    \/ MaxStepsExit
    \/ CompactSession
    \/ NoCompact
    \/ AddAssistant
    \/ InvalidOutput
    \/ StartToolCalls
    \/ ReturnFinal
    \/ Submit
    \/ \E i \in 1..Len(futures) : WorkerStart(i)
    \/ \E i \in 1..Len(futures) : WorkerFinish(i)
    \/ \E i \in 1..Len(futures) : Collect(i)
    \/ AddToolResults

Next == Step(LoopOutputs)

\* Runs of up to MaxStepsBound steps over the outputs of LoopOutputs
Spec == Init /\ [][Next]_vars

\* One-step runs whose model output is any batch of BatchOutputs
InitBatch ==
    /\ Init
    /\ max_steps = 1

NextBatch == Step(BatchOutputs)

SpecBatch == InitBatch /\ [][NextBatch]_vars

------------------------------------------------------------------------------
(* ToolRegistry on its own: register and to_schemas called in any order     *)

MaxRegisters == 3

MaxSchemaCalls == 2

\* Tool(name=..., description=..., parameters=..., function=...)
ToolNamed(name, function, parameters) ==
    [name |-> name, description |-> FunctionDoc(function),
     parameters |-> parameters, function |-> function]

RegistryNames == {"Zip", "read", "read_file"}

\* two tools per name, told apart by the function they wrap
RegistryTools ==
    {ToolNamed(n, "get_weather", "location") : n \in RegistryNames}
        \cup {ToolNamed(n, "read_file", "file_path") : n \in RegistryNames}

\* ToolRegistry(): an empty dict
InitRegistry ==
    /\ AuxInit
    /\ NoSkillsInit
    /\ _tools = EmptyDict
    /\ _tools_order = << >>
    /\ system_prompt = SystemPrompt
    /\ max_steps = 0
    /\ max_prompt_tokens = DefaultMaxPromptTokens
    /\ RunInit

\* registry.register(tool)
RegisterCall(tool) ==
    /\ Len(registered) < MaxRegisters
    /\ _tools' = Register(_tools, tool)
    /\ _tools_order' = RegisterOrder(_tools_order, tool)
    /\ registered' = Append(registered, tool)
    /\ schemas' = << >>
    /\ UNCHANGED <<system_prompt, max_steps, max_prompt_tokens, run_vars,
                   heap_vars, thread_vars, more_vars>>

\* registry.to_schemas(); schemas keeps the values returned since the last
\* registration
ToSchemasCall ==
    /\ Len(schemas) < MaxSchemaCalls
    /\ schemas' = Append(schemas, ToSchemas(_tools, _tools_order))
    /\ UNCHANGED <<agent_vars, run_vars, registered, heap_vars, thread_vars,
                   more_vars>>

NextRegistry ==
    \/ \E tool \in RegistryTools : RegisterCall(tool)
    \/ ToSchemasCall

SpecRegistry == InitRegistry /\ [][NextRegistry]_vars

------------------------------------------------------------------------------
(* Session on its own, with the objects it shares with its caller.          *)
(* heap_lists[l] is the list object l, a sequence of dict ids; heap_dicts[d] *)
(* is the dict object d; session_ref is the list Session._messages refers   *)
(* to; snapshots are the lists get_messages returned, which the caller      *)
(* holds. _messages is the history read through the reference. Agent.run    *)
(* keeps no list it got from or gave to the Session, so in the runs above   *)
(* the history is the value of _messages alone.                             *)

MaxLists == 3

MaxDicts == 2

loop_vars ==
    <<pc, step, llm_output, usage, futures, tool_call_results,
      final_response, llm_calls, compact_calls, last_prompt, turn_kinds>>

\* the entries of list object l
EntriesOf(lists, dicts, l) ==
    [i \in 1..Len(lists[l]) |-> dicts[lists[l][i]]]

\* self._messages, read after the operation
Synced == _messages' = EntriesOf(heap_lists', heap_dicts', session_ref')

\* Session(): _messages is a new empty list
InitSession ==
    /\ AuxInit
    /\ NoSkillsInit
    /\ _tools = EmptyDict
    /\ _tools_order = << >>
    /\ system_prompt = SystemPrompt
    /\ max_steps = 0
    /\ max_prompt_tokens = DefaultMaxPromptTokens
    /\ RunInit

\* session.add_message(role, content):
\*     self._messages.append(dict(role=role, content=content))
SessionAddMessage ==
    /\ Len(heap_dicts) < MaxDicts
    /\ heap_dicts' = Append(heap_dicts, [role |-> "user", content |-> <<"a">>])
    /\ heap_lists' = [heap_lists EXCEPT
                         ![session_ref] = Append(@, Len(heap_dicts) + 1)]
    /\ last_op' = "add_message"
    /\ UNCHANGED <<session_ref, snapshots>>
    /\ Synced
    /\ UNCHANGED <<agent_vars, loop_vars, registry_vars, thread_vars,
                   more_vars>>

\* snapshot = session.get_messages(): return list(self._messages), a new
\* list object holding the same dict objects
SessionGetMessages ==
    /\ Len(heap_lists) < MaxLists
    /\ heap_lists' = Append(heap_lists, heap_lists[session_ref])
    /\ snapshots' = snapshots \cup {Len(heap_lists) + 1}
    /\ last_op' = "get_messages"
    /\ UNCHANGED <<session_ref, heap_dicts>>
    /\ Synced
    /\ UNCHANGED <<agent_vars, loop_vars, registry_vars, thread_vars,
                   more_vars>>

\* session.set_messages(snapshot): self._messages = messages, the list
\* object the caller passed
SessionSetMessages(l) ==
    /\ l \in snapshots
    /\ session_ref' = l
    /\ last_op' = "set_messages"
    /\ UNCHANGED <<heap_lists, heap_dicts, snapshots>>
    /\ Synced
    /\ UNCHANGED <<agent_vars, loop_vars, registry_vars, thread_vars,
                   more_vars>>

\* session.set_messages([dict(role="user", content=...)]): a list literal
\* the caller keeps no reference to, as _compact_session passes
SessionSetMessagesNew ==
    /\ Len(heap_lists) < MaxLists
    /\ Len(heap_dicts) < MaxDicts
    /\ heap_dicts' = Append(heap_dicts,
                            [role |-> "user", content |-> <<"summary">>])
    /\ heap_lists' = Append(heap_lists, <<Len(heap_dicts) + 1>>)
    /\ session_ref' = Len(heap_lists) + 1
    /\ last_op' = "set_messages"
    /\ UNCHANGED snapshots
    /\ Synced
    /\ UNCHANGED <<agent_vars, loop_vars, registry_vars, thread_vars,
                   more_vars>>

\* the caller: snapshot.append(dict(role="user", content="b"))
CallerAppend(l) ==
    /\ l \in snapshots
    /\ Len(heap_dicts) < MaxDicts
    /\ heap_dicts' = Append(heap_dicts, [role |-> "user", content |-> <<"b">>])
    /\ heap_lists' = [heap_lists EXCEPT ![l] = Append(@, Len(heap_dicts) + 1)]
    /\ last_op' = "caller_append"
    /\ UNCHANGED <<session_ref, snapshots>>
    /\ Synced
    /\ UNCHANGED <<agent_vars, loop_vars, registry_vars, thread_vars,
                   more_vars>>

\* the caller: snapshot.pop()
CallerPop(l) ==
    /\ l \in snapshots
    /\ heap_lists[l] # << >>
    /\ heap_lists' = [heap_lists EXCEPT
                         ![l] = SubSeq(@, 1, Len(@) - 1)]
    /\ last_op' = "caller_pop"
    /\ UNCHANGED <<session_ref, snapshots, heap_dicts>>
    /\ Synced
    /\ UNCHANGED <<agent_vars, loop_vars, registry_vars, thread_vars,
                   more_vars>>

\* the caller: snapshot[i]["role"] = "system" or
\* snapshot[i]["content"] = "edited"
CallerEdit(l, i, key) ==
    /\ l \in snapshots
    /\ i \in 1..Len(heap_lists[l])
    /\ heap_dicts' =
          IF key = "role"
          THEN [heap_dicts EXCEPT ![heap_lists[l][i]].role = "system"]
          ELSE [heap_dicts EXCEPT ![heap_lists[l][i]].content = <<"edited">>]
    /\ last_op' = "caller_edit"
    /\ UNCHANGED <<session_ref, snapshots, heap_lists>>
    /\ Synced
    /\ UNCHANGED <<agent_vars, loop_vars, registry_vars, thread_vars,
                   more_vars>>

NextSession ==
    \/ SessionAddMessage
    \/ SessionGetMessages
    \/ \E l \in 1..MaxLists : SessionSetMessages(l)
    \/ SessionSetMessagesNew
    \/ \E l \in 1..MaxLists : CallerAppend(l)
    \/ \E l \in 1..MaxLists : CallerPop(l)
    \/ \E l \in 1..MaxLists, i \in 1..MaxDicts, key \in {"role", "content"} :
          CallerEdit(l, i, key)

SpecSession == InitSession /\ [][NextSession]_vars

------------------------------------------------------------------------------
(* Two calls of run on one Agent, each on its own Session, interleaved.     *)
(* The variables of the run hold the frame and the session of the call that *)
(* is executing; `other` holds those of the call that is waiting.           *)

\* the model outputs of the two runs: an answer, a text that is not JSON and
\* one tool call
TwoOutputs ==
    { Output(<<Msg(<<"a">>)>>),
      NotJsonOutput,
      Output(<<Call("c1", "get_weather", Params("location", "Beijing"))>>) }

\* the frame and the session of the executing call
Frame ==
    [_messages |-> _messages, pc |-> pc, step |-> step,
     llm_output |-> llm_output, usage |-> usage, futures |-> futures,
     tool_call_results |-> tool_call_results,
     final_response |-> final_response, llm_calls |-> llm_calls,
     compact_calls |-> compact_calls, last_prompt |-> last_prompt,
     turn_kinds |-> turn_kinds]

InitTwo ==
    /\ Init
    /\ max_steps = 1

SwitchRunSharedSession ==
    /\ current' = 3 - current
    /\ other' = Frame
    /\ _messages' = _messages
    /\ pc' = other.pc
    /\ step' = other.step
    /\ llm_output' = other.llm_output
    /\ usage' = other.usage
    /\ futures' = other.futures
    /\ tool_call_results' = other.tool_call_results
    /\ final_response' = other.final_response
    /\ llm_calls' = other.llm_calls
    /\ compact_calls' = other.compact_calls
    /\ last_prompt' = other.last_prompt
    /\ turn_kinds' = other.turn_kinds
    /\ UNCHANGED <<agent_vars, registry_vars, heap_vars, more_vars>>

\* the scheduler suspends the executing call and resumes the other one
SwitchRun ==
    /\ current' = 3 - current
    /\ other' = Frame
    /\ _messages' = other._messages
    /\ pc' = other.pc
    /\ step' = other.step
    /\ llm_output' = other.llm_output
    /\ usage' = other.usage
    /\ futures' = other.futures
    /\ tool_call_results' = other.tool_call_results
    /\ final_response' = other.final_response
    /\ llm_calls' = other.llm_calls
    /\ compact_calls' = other.compact_calls
    /\ last_prompt' = other.last_prompt
    /\ turn_kinds' = other.turn_kinds
    /\ UNCHANGED <<agent_vars, registry_vars, heap_vars, more_vars>>

NextTwo ==
    \/ Step(TwoOutputs)
    \/ SwitchRun

SpecTwo == InitTwo /\ [][NextTwo]_vars

------------------------------------------------------------------------------
(* Agent.__init__ with a skill directory, one file of the directory at a    *)
(* time, followed by direct calls of the load_skill tool.                   *)

MaxSkillFiles == 2

MaxLoadCalls == 2

\* The SKILL.md files a directory may hold: two well-formed files of one
\* name, a well-formed file of another name, a header without description,
\* a file without front matter and a file that is not valid UTF-8.
SkillFileKinds ==
    { [readable |-> TRUE, matched |-> TRUE,
       header |-> {"name", "description"},
       name |-> "report", description |-> <<"how to write a report">>,
       content |-> <<"report instructions">>],
      [readable |-> TRUE, matched |-> TRUE,
       header |-> {"name", "description"},
       name |-> "report", description |-> <<"reports, second edition">>,
       content |-> <<"other report instructions">>],
      [readable |-> TRUE, matched |-> TRUE,
       header |-> {"name", "description"},
       name |-> "plot", description |-> <<"how to draw a plot">>,
       content |-> <<"plot instructions">>],
      [readable |-> TRUE, matched |-> TRUE, header |-> {"name"},
       name |-> "broken", description |-> NoText,
       content |-> <<"never loaded">>],
      [readable |-> TRUE, matched |-> FALSE, header |-> {},
       name |-> "plain", description |-> NoText,
       content |-> <<"no front matter">>],
      [readable |-> FALSE, matched |-> FALSE, header |-> {},
       name |-> "binary", description |-> NoText, content |-> NoText] }

\* the skill directories: every list of at most MaxSkillFiles files
SkillDirs ==
    UNION { [1..n -> SkillFileKinds] : n \in 0..MaxSkillFiles }

\* the tools argument of Agent(...): none, the two of __main__, or one tool
\* that is itself named load_skill
UserToolLists ==
    { << >>, UserTools, <<ToolNamed("load_skill", "read_file", "file_path")>> }

\* Agent.__init__ entered: self._tool_registry = ToolRegistry()
InitSkills ==
    /\ AuxInit
    /\ skill_files \in SkillDirs
    /\ _skills = EmptyDict
    /\ skill_pos = 0
    /\ warnings = << >>
    /\ init_pc = "tools"
    /\ load_results = << >>
    /\ _tools = EmptyDict
    /\ _tools_order = << >>
    /\ system_prompt = NoText
    /\ max_steps = 0
    /\ max_prompt_tokens = DefaultMaxPromptTokens
    /\ RunInit

\* for tool_dict in tools: self._tool_registry.register(...)
RegisterUserTools(tools) ==
    /\ init_pc = "tools"
    /\ _tools' = RegisterAll(_tools, tools)
    /\ _tools_order' = RegisterOrderAll(_tools_order, tools)
    /\ init_pc' = "skills"
    /\ UNCHANGED <<system_prompt, max_steps, max_prompt_tokens, run_vars,
                   registry_vars, heap_vars, thread_vars, hist_vars,
                   file_vars, schema_vars, _skills, skill_files, skill_pos, warnings,
                   load_results>>

\* one iteration of the loop of SkillRegistry.register
ParseSkillFile ==
    /\ init_pc = "skills"
    /\ skill_pos < Len(skill_files)
    /\ LET f == skill_files[skill_pos + 1]
           outcome == SkillOutcome(f)
       IN  /\ init_pc' = IF outcome = "raise" THEN "raised" ELSE "skills"
           /\ _skills' = IF outcome = "register" THEN SkillStore(_skills, f)
                         ELSE _skills
           /\ warnings' = IF outcome = "warn"
                          THEN Append(warnings, SkillWarning(f))
                          ELSE warnings
    /\ skill_pos' = skill_pos + 1
    /\ UNCHANGED <<agent_vars, run_vars, registry_vars, heap_vars,
                   thread_vars, hist_vars, file_vars, schema_vars, skill_files,
                   load_results>>

\* if skill_register.num_skills: register(create_load_skill_tool());
\* ...; self.system_prompt = self._build_system_prompt()
RegisterLoadSkill ==
    /\ init_pc = "skills"
    /\ skill_pos = Len(skill_files)
    /\ IF DOMAIN _skills # {}
       THEN /\ _tools' = Register(_tools, CreateLoadSkillTool)
            /\ _tools_order' = RegisterOrder(_tools_order, CreateLoadSkillTool)
       ELSE UNCHANGED <<_tools, _tools_order>>
    /\ system_prompt' = BuildSystemPrompt(_tools', _tools_order')
    /\ init_pc' = "built"
    /\ UNCHANGED <<max_steps, max_prompt_tokens, run_vars, registry_vars,
                   heap_vars, thread_vars, hist_vars, file_vars, schema_vars, _skills,
                   skill_files, skill_pos, warnings, load_results>>

\* the names load_skill is called with: every name a file may carry and a
\* name no file carries
SkillNames == {f.name : f \in SkillFileKinds} \cup {"nope"}

\* self._tool_registry.execute("load_skill", '{"skill_name": "<name>"}')
\* on an Agent that registered the load_skill tool
LoadSkillCall(skill_name) ==
    /\ init_pc = "built"
    /\ DOMAIN _skills # {}
    /\ Len(load_results) < MaxLoadCalls
    /\ load_results' =
          Append(load_results,
              [skill_name |-> skill_name,
               outcome |-> RegistryExecute(_tools, "load_skill",
                               Params("skill_name", skill_name))])
    /\ UNCHANGED <<agent_vars, run_vars, registry_vars, heap_vars,
                   thread_vars, hist_vars, file_vars, schema_vars, _skills, skill_files,
                   skill_pos, warnings, init_pc>>

NextSkills ==
    \/ \E tools \in UserToolLists : RegisterUserTools(tools)
    \/ ParseSkillFile
    \/ RegisterLoadSkill
    \/ \E skill_name \in SkillNames : LoadSkillCall(skill_name)

SpecSkills == InitSkills /\ [][NextSkills]_vars

------------------------------------------------------------------------------
(* One-step runs whose batch is larger than the worker pool *)

\* a batch of PoolMaxWorkers + 1 calls, a text that is not JSON, an answer
PoolOutputs ==
    { Output(<<Call("c1", "get_weather", Params("location", "Beijing")),
               Call("c2", "get_weather", Params("location", "los angeles")),
               Call("c3", "get_weather", Params("location", "mars"))>>),
      NotJsonOutput,
      Output(<<Msg(<<"a">>)>>) }

NextPool == Step(PoolOutputs)

SpecPool == InitBatch /\ [][NextPool]_vars

------------------------------------------------------------------------------
(* A FileSession driven by its caller *)

MaxFileMessages == 2

\* the ids a session is given: a generated one, one the caller chose
FileIds == { <<"s", "1">>, <<"s", Quote>> }

\* the entries the caller adds; their texts need escaping in JSON
FileMessages ==
    { [role |-> "user", content |-> <<Quote, "a">>],
      [role |-> "assistant", content |-> <<Backslash, "n">>],
      [role |-> "user", content |-> <<NL>>] }

\* the lists set_messages is given
FileMessageLists ==
    { << >> } \cup { <<m>> : m \in FileMessages }

InitFile ==
    /\ AuxInit
    /\ NoSkillsInit
    /\ _tools = EmptyDict
    /\ _tools_order = << >>
    /\ system_prompt = SystemPrompt
    /\ max_steps = 0
    /\ max_prompt_tokens = DefaultMaxPromptTokens
    /\ RunInit

file_frame ==
    <<agent_vars, pc, step, llm_output, usage, futures, tool_call_results,
      final_response, llm_calls, compact_calls, last_prompt, turn_kinds,
      registry_vars, heap_vars, thread_vars, skill_vars, hist_vars,
      schema_vars>>

\* FileSession(session_dir=..., id=...): __post_init__ saves
FileSessionNew(id) ==
    /\ fs_id = NoText
    /\ fs_id' = id
    /\ created_at' \in Clock
    /\ _messages' = << >>
    /\ session_file' = save(session_file, id, created_at', << >>)
    /\ fs_state' = "constructed"
    /\ UNCHANGED file_frame

\* FileSession.load(session_id, session_dir) of a file that is there: the
\* object it returns takes the place of the one held
FileSessionLoad(session_id) ==
    /\ Exists(session_file, session_id)
    /\ session_file.complete
    /\ LET session == JsonLoad(session_file.text)
       IN  /\ fs_id' = session_id
           /\ created_at' = FromIsoFormat(session.created_at)
           /\ _messages' = session.messages
           /\ session_file' = save(session_file, session_id, created_at',
                                   session.messages)
    /\ fs_state' = "loaded"
    /\ UNCHANGED file_frame

\* FileSession.load raises FileNotFoundError
FileSessionLoadNotFound(session_id) ==
    /\ ~Exists(session_file, session_id)
    /\ fs_state' = "not_found"
    /\ UNCHANGED <<_messages, session_file, fs_id, created_at, file_frame>>

\* FileSession.load raises JSONDecodeError on a file cut short
FileSessionLoadRaises(session_id) ==
    /\ Exists(session_file, session_id)
    /\ ~session_file.complete
    /\ fs_state' = "raised"
    /\ UNCHANGED <<_messages, session_file, fs_id, created_at, file_frame>>

\* FileSession.add_message: super().add_message, then save
FileAddMessage(m) ==
    /\ fs_id # NoText
    /\ Len(_messages) < MaxFileMessages
    /\ _messages' = AddMessage(_messages, m.role, m.content)
    /\ session_file' = save(session_file, fs_id, created_at, _messages')
    /\ fs_state' = "added"
    /\ UNCHANGED <<fs_id, created_at, file_frame>>

\* FileSession.set_messages: super().set_messages, then save
FileSetMessages(messages) ==
    /\ fs_id # NoText
    /\ _messages' = SetMessages(_messages, messages)
    /\ session_file' = save(session_file, fs_id, created_at, _messages')
    /\ fs_state' = "set"
    /\ UNCHANGED <<fs_id, created_at, file_frame>>

\* add_message whose save raises OSError: the entry is in memory already
FileAddMessageRaises(m) ==
    /\ fs_id # NoText
    /\ Len(_messages) < MaxFileMessages
    /\ _messages' = AddMessage(_messages, m.role, m.content)
    /\ session_file' \in SaveFailures(session_file, fs_id)
    /\ fs_state' = "raised"
    /\ UNCHANGED <<fs_id, created_at, file_frame>>

\* set_messages whose save raises OSError: the list is replaced already
FileSetMessagesRaises(messages) ==
    /\ fs_id # NoText
    /\ _messages' = SetMessages(_messages, messages)
    /\ session_file' \in SaveFailures(session_file, fs_id)
    /\ fs_state' = "raised"
    /\ UNCHANGED <<fs_id, created_at, file_frame>>

\* the identifiers load is called with: the ids in use, and whatever
\* list_sessions returned
LoadIds ==
    FileIds \cup {ListSessions(session_file)[i] :
                     i \in 1..Len(ListSessions(session_file))}

NextFile ==
    \/ \E id \in FileIds : FileSessionNew(id)
    \/ \E id \in LoadIds : FileSessionLoad(id)
    \/ \E id \in LoadIds : FileSessionLoadNotFound(id)
    \/ \E id \in LoadIds : FileSessionLoadRaises(id)
    \/ \E m \in FileMessages : FileAddMessage(m)
    \/ \E l \in FileMessageLists : FileSetMessages(l)
    \/ \E m \in FileMessages : FileAddMessageRaises(m)
    \/ \E l \in FileMessageLists : FileSetMessagesRaises(l)

SpecFile == InitFile /\ [][NextFile]_vars

------------------------------------------------------------------------------
(* The size of a prompt: what usage.prompt_tokens counts. Every unit of text *)
(* of every message counts, so a prompt with more text counts more.          *)

\* a Message item: its text; a ToolCall item: id, name, parameters
ItemTokens(item) ==
    IF item.type = "message" /\ "text" \in DOMAIN item
    THEN Len(item.text)
    ELSE 3

RECURSIVE ItemsTokens(_)
ItemsTokens(items) ==
    IF items = << >> THEN 0
    ELSE ItemTokens(Head(items)) + ItemsTokens(Tail(items))

\* the results of a batch: each is an id and a result text
RECURSIVE ResultsTokens(_)
ResultsTokens(results) ==
    IF results = << >> THEN 0
    ELSE 1 + Len(Head(results).result) + ResultsTokens(Tail(results))

\* one role/content entry: the role and the text of the content
MessageTokens(m) ==
    IF m.role = "assistant" THEN 2 + ItemsTokens(m.content.content)
    ELSE IF m.content = << >> THEN 1
    ELSE IF m.content[1] = "Tool call results: "
    THEN 2 + ResultsTokens(m.content[2])
    ELSE 1 + Len(m.content)

RECURSIVE TokenCount(_)
TokenCount(messages) ==
    IF messages = << >> THEN 0
    ELSE MessageTokens(Head(messages)) + TokenCount(Tail(messages))

------------------------------------------------------------------------------
(* Runs under fair scheduling, with tool handlers that may never return     *)

\* an answer, a text that is not JSON, one call, two calls
LiveOutputs ==
    { Output(<<Msg(<<"a">>)>>),
      NotJsonOutput,
      Output(<<Call("c1", "get_weather", Params("location", "Beijing"))>>),
      Output(<<Call("c1", "get_weather", Params("location", "los angeles")),
               Call("c2", "get_weather", Params("location", "mars"))>>) }

\* tool.execute of a running call never returns: its thread stays busy
\* and its future is never done
WorkerHang(i) ==
    /\ pc \in {"submit", "collect"}
    /\ i \in 1..Len(futures)
    /\ futures[i].state = "running"
    /\ futures' = [futures EXCEPT ![i].state = "hung"]
    /\ UNCHANGED <<agent_vars, aux_vars, _messages, pc, step, llm_output, usage,
                   tool_call_results, final_response, llm_calls,
                   compact_calls, last_prompt, turn_kinds>>

NextLive ==
    \/ Step(LiveOutputs)
    \/ \E i \in 1..Len(futures) : WorkerHang(i)

\* The control thread runs whenever it can, the model call returns, and
\* the pool's threads run their calls; only a handler may fail to return.
SpecLive == Init /\ [][NextLive]_vars /\ WF_vars(Step(LiveOutputs))

------------------------------------------------------------------------------
(* Two runs one after the other on the same session *)

RunAgainFreshSession ==
    /\ pc = "done"
    /\ current = 1
    /\ current' = 2
    /\ other' = Frame
    /\ \E user_query \in QueriesFor(2) :
          _messages' = AddMessage(<< >>, "user", user_query)
    /\ pc' = "loop"
    /\ step' = 0
    /\ llm_output' = NoOutput
    /\ usage' = 0
    /\ futures' = << >>
    /\ tool_call_results' = << >>
    /\ final_response' = NoText
    /\ llm_calls' = 0
    /\ compact_calls' = 0
    /\ last_prompt' = << >>
    /\ turn_kinds' = << >>
    /\ UNCHANGED <<agent_vars, registry_vars, heap_vars, more_vars>>

\* agent.run(user_query, session) with the session of a run that has
\* returned: `if not session` is false, the query is appended, the locals of
\* the call are new; `other` keeps the frame the first run ended with
RunAgain ==
    /\ pc = "done"
    /\ current = 1
    /\ current' = 2
    /\ other' = Frame
    /\ \E user_query \in QueriesFor(2) :
          _messages' = AddMessage(_messages, "user", user_query)
    /\ pc' = "loop"
    /\ step' = 0
    /\ llm_output' = NoOutput
    /\ usage' = 0
    /\ futures' = << >>
    /\ tool_call_results' = << >>
    /\ final_response' = NoText
    /\ llm_calls' = 0
    /\ compact_calls' = 0
    /\ last_prompt' = << >>
    /\ turn_kinds' = << >>
    /\ UNCHANGED <<agent_vars, registry_vars, heap_vars, more_vars>>

NextAgain ==
    \/ Step(TwoOutputs)
    \/ RunAgain

SpecAgain == InitTwo /\ [][NextAgain]_vars

------------------------------------------------------------------------------
(* One call of call_llm_with_schema *)

MaxRetriesBound == 3

\* the locals of run and every other state: untouched by the call
schema_frame == <<agent_vars, run_vars, registry_vars, heap_vars, thread_vars,
                  skill_vars, hist_vars, file_vars>>

InitSchema == InitFile

\* call_llm_with_schema(user_query, schema, max_retries): the prompt is
\* built and messages starts as one user message
SchemaStart(n) ==
    /\ schema_pc = "idle"
    /\ max_retries' = n
    /\ \E user_query \in Queries \cup OtherQueries :
          schema_messages' = <<[role |-> "user",
                                content |-> SchemaPrompt(user_query)]>>
    /\ last_error' = "None"
    /\ attempt' = 0
    /\ schema_pc' = "loop"
    /\ UNCHANGED <<schema_output, schema_result, schema_calls, schema_prompt,
                   schema_frame>>

\* for _ in range(max_retries): llm_output = call_llm(messages)
SchemaCallLLM ==
    /\ schema_pc = "loop"
    /\ InRange(attempt, max_retries)
    /\ schema_output' \in SchemaOutputs
    /\ schema_prompt' = schema_messages
    /\ schema_calls' = schema_calls + 1
    /\ attempt' = attempt + 1
    /\ schema_pc' = "validate"
    /\ UNCHANGED <<max_retries, schema_messages, last_error, schema_result,
                   schema_frame>>

\* return schema.model_validate_json(llm_output)
SchemaReturn ==
    /\ schema_pc = "validate"
    /\ SchemaValid(schema_output)
    /\ schema_result' = SchemaResult("value", schema_output.answer, 0, "None")
    /\ schema_pc' = "returned"
    /\ UNCHANGED <<max_retries, schema_messages, attempt, schema_output,
                   last_error, schema_calls, schema_prompt, schema_frame>>

SchemaInvalidNoFeedback ==
    /\ schema_pc = "validate"
    /\ ~SchemaValid(schema_output)
    /\ last_error' = SchemaError(schema_output)
    /\ schema_messages' =
          Append(schema_messages,
                 [role |-> "assistant", content |-> schema_output])
    /\ schema_pc' = "loop"
    /\ UNCHANGED <<max_retries, attempt, schema_output, schema_result,
                   schema_calls, schema_prompt, schema_frame>>

\* except ValidationError as e: last_error = e; the failed output and the
\* feedback are appended to messages
SchemaInvalid ==
    /\ schema_pc = "validate"
    /\ ~SchemaValid(schema_output)
    /\ last_error' = SchemaError(schema_output)
    /\ schema_messages' =
          schema_messages \o
             <<[role |-> "assistant", content |-> schema_output],
               [role |-> "user",
                content |-> ErrorFeedback(SchemaError(schema_output))]>>
    /\ schema_pc' = "loop"
    /\ UNCHANGED <<max_retries, attempt, schema_output, schema_result,
                   schema_calls, schema_prompt, schema_frame>>

\* raise ValueError(f"Failed after {max_retries} attempts. Last error: ...")
SchemaRaise ==
    /\ schema_pc = "loop"
    /\ ~InRange(attempt, max_retries)
    /\ schema_result' = SchemaResult("ValueError", "", max_retries, last_error)
    /\ schema_pc' = "raised"
    /\ UNCHANGED <<max_retries, schema_messages, attempt, schema_output,
                   last_error, schema_calls, schema_prompt, schema_frame>>

NextSchema ==
    \/ \E n \in 0..MaxRetriesBound : SchemaStart(n)
    \/ SchemaCallLLM
    \/ SchemaReturn
    \/ SchemaInvalid
    \/ SchemaRaise

SpecSchema == InitSchema /\ [][NextSchema]_vars

-----------------------------------------------------------------------------
(* Properties *)

Last(seq) == seq[Len(seq)]

AllTurns(kind) == \A i \in 1..Len(turn_kinds) : turn_kinds[i] = kind

\* the control thread holds a validated output without tool calls
FinalTurn ==
    /\ pc = "validate"
    /\ LLMOutputValid(llm_output)
    /\ ReturnedToolCalls(llm_output) = << >>

\* C1 as stated: a valid output without tool calls ends the run on that
\* step, with no further model call and no tool dispatch, and the value
\* returned is the concatenation of its message texts in order.
C1_ReturnsConcatenation ==
    [][FinalTurn =>
          /\ pc' = "done"
          /\ final_response' = Concat(MessageTexts(llm_output))
          /\ llm_calls' = llm_calls /\ compact_calls' = compact_calls
          /\ llm_calls' = step + 1
          /\ futures' = << >>]_vars

\* C1 (amended): a valid output without tool calls ends the run on that
\* step, with no further model call and no tool dispatch, and the value
\* returned is its message texts in order joined by one newline between
\* consecutive texts; a single message is returned as its text, and when it
\* is the first output the run has made exactly one decision call.
C1_ReturnsJoinedTexts ==
    [][FinalTurn =>
          /\ pc' = "done"
          /\ final_response' = Join(NL, MessageTexts(llm_output))
          /\ Len(llm_output.content) = 1 =>
                final_response' = llm_output.content[1].text
          /\ llm_calls' = llm_calls /\ compact_calls' = compact_calls
          /\ llm_calls' = step + 1
          /\ futures' = << >>
          /\ _messages' = _messages]_vars

C1_Witness ==
    /\ pc = "done"
    /\ llm_calls = 1
    /\ Len(llm_output.content) = 2
    /\ final_response = <<"a", NL, "b">>

\* C2: when every output of the model requests a tool call, the run makes
\* exactly max_steps decision calls, never more, and returns
\* "Max step reached".
C2_ExhaustionAfterMaxSteps ==
    /\ llm_calls <= max_steps
    /\ (pc = "done" /\ AllTurns("tool_calls")) =>
          /\ final_response = MaxStepReached
          /\ llm_calls = max_steps
          /\ step = max_steps

C2_Witness ==
    /\ pc = "done"
    /\ max_steps = MaxStepsBound
    /\ Len(turn_kinds) = MaxStepsBound
    /\ AllTurns("tool_calls")
    /\ final_response = MaxStepReached

\* the control thread holds an output that failed validation
InvalidTurn ==
    /\ pc = "validate"
    /\ ~LLMOutputValid(llm_output)

\* C3: a malformed output does not abort the run: the session then ends
\* with the malformed output (assistant) followed by the diagnostic (user),
\* nothing before them is touched, no tool is dispatched, exactly one step
\* is consumed and the loop goes on to its next iteration.
C3_InvalidOutputConsumesOneStep ==
    [][InvalidTurn =>
          /\ pc' = "loop"
          /\ step' = step + 1
          /\ Len(_messages') = Len(_messages) + 1
          /\ SubSeq(_messages', 1, Len(_messages)) = _messages
          /\ Last(_messages).role = "assistant"
          /\ Last(_messages).content = llm_output
          /\ Last(_messages').role = "user"
          /\ Last(_messages').content[1] = "Invalid response format: "
          /\ futures' = << >>
          /\ llm_calls' = llm_calls
          /\ final_response' = final_response]_vars

C3_Witness ==
    /\ pc = "check_limit"
    /\ step = 1
    /\ turn_kinds[1] = "invalid"
    /\ last_prompt[Len(last_prompt)].content[1] = "Invalid response format: "

\* C4: when every output of the model is malformed, the run makes exactly
\* max_steps decision calls and then returns "Max step reached"; it never
\* raises and is never cut short by another cap.
C4_MalformedModelExhaustsSteps ==
    /\ AllTurns("invalid") => pc # "raised"
    /\ (pc = "done" /\ AllTurns("invalid")) =>
          /\ final_response = MaxStepReached
          /\ llm_calls = max_steps
          /\ Len(_messages) >= 2
                => Last(_messages).content[1] = "Invalid response format: "

C4_Witness ==
    /\ pc = "done"
    /\ max_steps = MaxStepsBound
    /\ Len(turn_kinds) = MaxStepsBound
    /\ AllTurns("invalid")
    /\ final_response = MaxStepReached

\* some call of the last batch ended in the given kind of failure
SomeResultStartsWith(prefix) ==
    \E i \in 1..Len(tool_call_results) :
        StartsWith(tool_call_results[i].result, <<prefix>>)

\* C5: no failure propagates out of Agent.run: the run never raises, and
\* when it has returned the value is either the answer of a valid output
\* without tool calls or "Max step reached".
C5_RunNeverRaises ==
    /\ pc # "raised"
    /\ \A i \in 1..Len(futures) : ~futures[i].exc
    /\ pc = "done" =>
          \/ final_response = MaxStepReached /\ step = max_steps
          \/ /\ Last(turn_kinds) = "final"
             /\ final_response = Join(NL, MessageTexts(llm_output))

C5_Witness ==
    /\ pc = "done"
    /\ Len(turn_kinds) = 2
    /\ turn_kinds[1] = "invalid"
    /\ SomeResultStartsWith("Tool call failed: ")
    /\ SomeResultStartsWith("Invalid tool call parameters: ")

\* the batch of the current turn has been executed and its results appended
BatchDone ==
    /\ pc \in {"loop", "done"}
    /\ futures # << >>

\* the list of {id, result} entries carried by a tool-result turn
ResultsOf(message) == message.content[2]

DistinctIds(calls) ==
    \A i, j \in 1..Len(calls) : i # j => calls[i].id # calls[j].id

\* C6: for a batch of N calls with pairwise distinct ids the dispatcher
\* returns exactly N results, in whatever order the calls completed, and
\* the result carrying a call's id is the one that call's execution stored.
C6_OneResultPerCallById ==
    LET calls == ReturnedToolCalls(llm_output)
        results == ResultsOf(Last(_messages))
    IN  (BatchDone /\ DistinctIds(calls)) =>
          /\ Last(_messages).role = "user"
          /\ Last(_messages).content[1] = "Tool call results: "
          /\ Len(results) = Len(calls)
          /\ Len(futures) = Len(calls)
          /\ \A i \in 1..Len(calls) :
                /\ futures[i].tool_call = calls[i]
                /\ Cardinality({j \in 1..Len(results) :
                                   results[j].id = calls[i].id}) = 1
                /\ \A j \in 1..Len(results) :
                      results[j].id = calls[i].id =>
                         results[j].result = futures[i].result

IsFailure(result) ==
    \/ StartsWith(result, <<"Tool call failed: ">>)
    \/ StartsWith(result, <<"Invalid tool call parameters: ">>)
    \/ StartsWith(result, <<"Tool '">>)

\* two calls that both failed, the second completing first
C6_Witness ==
    LET calls == ReturnedToolCalls(llm_output)
        results == ResultsOf(Last(_messages))
    IN  /\ BatchDone
        /\ Len(calls) = 2
        /\ DistinctIds(calls)
        /\ results[1].id = calls[2].id
        /\ results[1].result # results[2].result
        /\ \A j \in 1..2 : IsFailure(results[j].result)

AllDone(futs) == \A i \in 1..Len(futs) : futs[i].state = "done"

\* C7: the control thread leaves the dispatcher only when every call of the
\* batch has resolved; the results are appended as one turn holding one
\* entry per call; and the prompt of the next model call ends with that
\* turn.
C7_JoinBeforeNextCall ==
    [][/\ pc' \notin {"submit", "collect"} => AllDone(futures')
       /\ (pc = "collect" /\ _messages' # _messages) =>
             /\ AllDone(futures)
             /\ Len(_messages') = Len(_messages) + 1
             /\ SubSeq(_messages', 1, Len(_messages)) = _messages
             /\ Last(_messages').role = "user"
             /\ Len(ResultsOf(Last(_messages'))) =
                   Len(ReturnedToolCalls(llm_output))
       /\ (pc = "loop" /\ pc' = "check_limit" /\ futures # << >>) =>
             /\ Last(last_prompt') = Last(_messages)
             /\ Last(last_prompt').content[1] = "Tool call results: "
             /\ \A i \in 1..Len(futures) :
                   \E j \in 1..Len(ResultsOf(Last(last_prompt'))) :
                      ResultsOf(Last(last_prompt'))[j] =
                         [id |-> futures[i].tool_call.id,
                          result |-> futures[i].result]]_vars

\* the second decision call is made on a prompt ending with both results
C7_Witness ==
    /\ pc = "check_limit"
    /\ Len(turn_kinds) = 2
    /\ turn_kinds[1] = "tool_calls"
    /\ Last(last_prompt).content[1] = "Tool call results: "
    /\ Len(ResultsOf(Last(last_prompt))) = 2

\* the handler of a call is reached and raises
HandlerRaises(call) ==
    /\ call.name \in DOMAIN _tools
    /\ ModelValidateJson(_tools[call.name].parameters, call.parameters)
    /\ CallFunction(_tools[call.name].function, call.parameters.value).raised

FailedResults(results) ==
    {j \in 1..Len(results) :
        StartsWith(results[j].result, <<"Tool call failed: ">>)}

\* C8: a raising handler never crashes the run: its call gets one
\* "Tool call failed: ..." result, the batch has as many such results as
\* raising calls, and every other call of the batch completes with the
\* result its own execution gives.
C8_FailureIsolated ==
    LET calls == ReturnedToolCalls(llm_output)
        results == ResultsOf(Last(_messages))
    IN  /\ pc # "raised"
        /\ BatchDone =>
             /\ Len(results) = Len(calls)
             /\ Cardinality(FailedResults(results)) =
                   Cardinality({i \in 1..Len(calls) : HandlerRaises(calls[i])})
             /\ \A i \in 1..Len(calls) :
                   /\ futures[i].state = "done"
                   /\ \E j \in 1..Len(results) :
                         /\ results[j].id = calls[i].id
                         /\ results[j].result = futures[i].result
                   /\ HandlerRaises(calls[i]) =>
                         /\ futures[i].invoked = 1
                         /\ futures[i].result =
                              <<"Tool call failed: ">> \o
                              CallFunction(_tools[calls[i].name].function,
                                           calls[i].parameters.value).value
                   /\ ~HandlerRaises(calls[i]) =>
                         futures[i].result =
                            RegistryExecute(_tools, calls[i].name,
                                            calls[i].parameters).value

\* a raising call completed first and its sibling still succeeded
C8_Witness ==
    LET calls == ReturnedToolCalls(llm_output)
        results == ResultsOf(Last(_messages))
    IN  /\ BatchDone
        /\ Len(calls) = 2
        /\ HandlerRaises(calls[1])
        /\ results[1].id = calls[1].id
        /\ results[1].result = <<"Tool call failed: ", "Unknown location">>
        /\ results[2].result = <<"cloudy, 5 degrees">>

\* the call of a future names a registered tool whose schema rejects its
\* parameter string
InvalidParameters(call) ==
    /\ call.name \in DOMAIN _tools
    /\ ~ModelValidateJson(_tools[call.name].parameters, call.parameters)

\* C9: a call whose parameter string fails validation never runs the
\* tool's function; it completes, without raising, with an
\* "Invalid tool call parameters: ..." result.
C9_InvalidParametersSkipHandler ==
    \A i \in 1..Len(futures) :
        (futures[i].state = "done" /\ InvalidParameters(futures[i].tool_call)) =>
            /\ futures[i].invoked = 0
            /\ ~futures[i].exc
            /\ Len(futures[i].result) = 2
            /\ futures[i].result[1] = "Invalid tool call parameters: "

\* both kinds of rejected parameter strings have been executed
C9_Witness ==
    /\ \E i \in 1..Len(futures) :
          /\ futures[i].state = "done"
          /\ InvalidParameters(futures[i].tool_call)
          /\ futures[i].tool_call.parameters.json
    /\ turn_kinds = <<"tool_calls", "tool_calls">>
    /\ \E k \in 1..Len(_messages) :
          /\ _messages[k].role = "user"
          /\ _messages[k].content[1] = "Tool call results: "
          /\ ResultsOf(_messages[k]) =
               << [id |-> "c1",
                   result |-> <<"Invalid tool call parameters: ",
                                "json_invalid">>] >>

NotRegistered(name) == <<"Tool '", name, "' not registered">>

\* C10: executing a name that is not registered stores the string
\* "Tool '<name>' not registered" without raising, runs no function and
\* leaves the registry as it was; the tool-result turn of the batch carries
\* that string under the call's id, and so does the prompt of the next
\* model call.
C10_UnknownToolIsAResult ==
    [][/\ \A i \in 1..Len(futures) :
             ( /\ i <= Len(futures')
               /\ futures[i].state = "running"
               /\ futures'[i].state = "done"
               /\ futures[i].tool_call.name \notin DOMAIN _tools ) =>
                  /\ futures'[i].result = NotRegistered(futures[i].tool_call.name)
                  /\ ~futures'[i].exc
                  /\ futures'[i].invoked = 0
                  /\ _tools' = _tools
       /\ (pc = "collect" /\ pc' = "loop") =>
             \A i \in 1..Len(futures) :
                futures[i].tool_call.name \notin DOMAIN _tools =>
                   \E j \in 1..Len(ResultsOf(Last(_messages'))) :
                      ResultsOf(Last(_messages'))[j] =
                         [id |-> futures[i].tool_call.id,
                          result |-> NotRegistered(futures[i].tool_call.name)]
       /\ (pc = "loop" /\ pc' = "check_limit") =>
             \A i \in 1..Len(futures) :
                futures[i].tool_call.name \notin DOMAIN _tools =>
                   \E j \in 1..Len(ResultsOf(Last(last_prompt'))) :
                      ResultsOf(Last(last_prompt'))[j] =
                         [id |-> futures[i].tool_call.id,
                          result |-> NotRegistered(futures[i].tool_call.name)]
       /\ pc' # "raised"]_vars

\* the second decision call sees the string under the id of the call
C10_Witness ==
    /\ pc = "check_limit"
    /\ Len(turn_kinds) = 2
    /\ Last(last_prompt).content[1] = "Tool call results: "
    /\ \E j \in 1..Len(ResultsOf(Last(last_prompt))) :
          ResultsOf(Last(last_prompt))[j] =
             [id |-> "c1", result |-> NotRegistered("send_email")]

\* the tool most recently passed to register under a name
LastRegistered(name) ==
    LET idx == {i \in 1..Len(registered) : registered[i].name = name}
    IN  registered[CHOOSE i \in idx : \A j \in idx : j <= i]

RegisteredNames == {registered[i].name : i \in 1..Len(registered)}

ExecuteArguments ==
    {Params("location", "Beijing"), Params("file_path", "a.txt"),
     NotJsonParams}

\* C11: after any sequence of register calls, execute under a registered
\* name gives what the tool most recently registered under that name gives,
\* execute under any other name reports it as not registered, and every
\* value to_schemas returned lists each registered name exactly once.
C11_LastWriteWins ==
    /\ \A name \in RegisteredNames, p \in ExecuteArguments :
          RegistryExecute(_tools, name, p)
              = ToolExecute(LastRegistered(name), p)
    /\ \A name \in RegistryNames \ RegisteredNames, p \in ExecuteArguments :
          RegistryExecute(_tools, name, p).value = NotRegistered(name)
    /\ \A k \in 1..Len(schemas) :
          /\ \A name \in RegisteredNames :
                Cardinality({i \in 1..Len(schemas[k]) :
                                schemas[k][i].name = name}) = 1
          /\ \A i \in 1..Len(schemas[k]) :
                schemas[k][i] = ToSchema(LastRegistered(schemas[k][i].name))

\* a name was registered twice with tools that execute differently, the
\* registry resolves it to the second, and to_schemas has been called
C11_Witness ==
    /\ Len(schemas) >= 1
    /\ \E i, j \in 1..Len(registered) :
          /\ i < j
          /\ registered[i].name = registered[j].name
          /\ registered[j] = LastRegistered(registered[j].name)
          /\ \E p \in ExecuteArguments :
                /\ ToolExecute(registered[i], p) # ToolExecute(registered[j], p)
                /\ RegistryExecute(_tools, registered[j].name, p)
                      = ToolExecute(registered[j], p)

\* the names of a schema list are strictly ascending by code point
Ascending(out) ==
    \A i \in 1..(Len(out) - 1) :
        StrLess(CodePoints(out[i].name), CodePoints(out[i + 1].name))

\* C12: a to_schemas call returns the schemas of the registered tools, each
\* once, in strictly ascending order of name, which fixes the output by the
\* set of registered tools whatever the order of registration; it returns
\* the same list as every call since the last registration and leaves the
\* registry as it was.
C12_SchemasDeterministic ==
    [][Len(schemas') = Len(schemas) + 1 =>
          LET out == Last(schemas')
          IN  /\ Ascending(out)
              /\ Len(out) = Cardinality(DOMAIN _tools)
              /\ {out[i] : i \in 1..Len(out)}
                    = {ToSchema(_tools[n]) : n \in DOMAIN _tools}
              /\ \A k \in 1..Len(schemas) : schemas[k] = out
              /\ _tools' = _tools
              /\ _tools_order' = _tools_order
              /\ registered' = registered]_vars

\* to_schemas was called twice on a registry of three tools that were
\* registered in an order that is not the ascending one
C12_Witness ==
    /\ Len(schemas) = 2
    /\ Len(_tools_order) = 3
    /\ \E i \in 1..2 :
          StrLess(CodePoints(_tools_order[i + 1]), CodePoints(_tools_order[i]))
    /\ schemas[1] = schemas[2]
    /\ Ascending(schemas[2])

\* the synthetic turn that wraps a summary
IsCompactTurn(m) ==
    /\ m.role = "user"
    /\ \E summary \in Summaries : m.content = CompactHistory(summary)

\* C13: a compaction leaves a history of length 1 whatever it was before:
\* one user-role turn whose content is "[COMPACT SESSION HISTORY]: "
\* followed by the summary.
C13_CompactionLeavesOneTurn ==
    [][compact_calls' # compact_calls =>
          /\ compact_calls' = compact_calls + 1
          /\ Len(_messages') = 1
          /\ IsCompactTurn(_messages'[1])]_vars

\* the second step compacted a history of three turns into one
C13_Witness ==
    /\ pc = "append"
    /\ step = 1
    /\ compact_calls = 1
    /\ usage >= max_prompt_tokens
    /\ Len(last_prompt) = 4
    /\ Len(_messages) = 1

Assistant(output) == [role |-> "assistant", content |-> output]

\* what the loop does with the output it holds, whatever the usage was
ActedOn ==
    /\ pc = "validate" /\ TurnKind(llm_output) = "final" =>
          /\ pc' = "done"
          /\ final_response' = Join(NL, MessageTexts(llm_output))
          /\ _messages' = _messages
    /\ pc = "validate" /\ TurnKind(llm_output) = "tool_calls" =>
          /\ pc' = "submit"
          /\ _messages' = _messages
    /\ pc = "validate" /\ TurnKind(llm_output) = "invalid" =>
          /\ pc' = "loop"
          /\ _messages' = Append(_messages,
                [role |-> "user", content |-> InvalidResponse(llm_output)])
    /\ pc = "collect" /\ pc' = "loop" =>
          /\ Len(tool_call_results) = Len(ReturnedToolCalls(llm_output))
          /\ _messages' = Append(_messages,
                [role |-> "user",
                 content |-> ToolCallResults(tool_call_results)])

\* C14: when the usage of a model call is at or over the budget, the step
\* compacts, then appends the response to the compacted history, then
\* parses it and acts on it as on any response (return, dispatch or
\* diagnostic); from the append to the next model call or the return the
\* history is the compact turn followed by that response.
C14_ResponseSurvivesCompaction ==
    [][usage >= max_prompt_tokens =>
          /\ pc = "check_limit" => compact_calls' = compact_calls + 1
          /\ pc = "append" =>
                /\ Len(_messages) = 1
                /\ _messages' = Append(_messages, Assistant(llm_output))
          /\ ActedOn
          /\ pc' \in {"validate", "submit", "collect", "loop", "done"} =>
                /\ Len(_messages') >= 2
                /\ IsCompactTurn(_messages'[1])
                /\ _messages'[2].role = "assistant"
                /\ _messages'[2].content = llm_output]_vars

\* a step that compacted returned the answer of its over-budget response
C14_Witness ==
    /\ pc = "done"
    /\ usage >= max_prompt_tokens
    /\ Last(turn_kinds) = "final"
    /\ MessageTexts(llm_output) # << >>
    /\ final_response = Join(NL, MessageTexts(llm_output))
    /\ Len(_messages) = 2
    /\ IsCompactTurn(_messages[1])

\* C15 as stated: when the over-limit check runs, the response of the
\* model call of this step is already the last entry of the history.
C15_CheckAfterAppend ==
    pc = "check_limit" =>
        /\ _messages # << >>
        /\ Last(_messages).role = "assistant"
        /\ Last(_messages).content = llm_output

\* C15: the over-limit check and the compaction run after the model call
\* has returned and before its response is appended: at the check the
\* history is still the one the prompt was built from, compaction fires
\* exactly when the usage is at or over the budget, and the next thing the
\* step does is append the response to the history the check left.
C15_CheckBeforeAppend ==
    [][/\ pc = "check_limit" =>
             /\ BuildMessages(_messages) = last_prompt
             /\ pc' = "append"
             /\ (compact_calls' = compact_calls + 1)
                   <=> (usage >= max_prompt_tokens)
             /\ (compact_calls' = compact_calls) => (_messages' = _messages)
       /\ pc = "append" =>
             /\ pc' = "validate"
             /\ compact_calls' = compact_calls
             /\ _messages' = Append(_messages, Assistant(llm_output))]_vars

\* the check fired a compaction and the response is not yet in the history
C15_Witness ==
    /\ pc = "append"
    /\ usage >= max_prompt_tokens
    /\ compact_calls = llm_calls
    /\ Len(_messages) = 1
    /\ IsCompactTurn(_messages[1])
    /\ llm_output # NoOutput

\* C16: from the append of the user query on, the history is never empty,
\* and every prompt sent to the model carries at least one history turn
\* after the developer turn.
C16_HistoryNeverEmpty ==
    /\ pc # "idle" => Len(_messages) >= 1
    /\ llm_calls >= 1 => Len(last_prompt) >= 2

\* a model call was made on a history that had just been compacted
C16_Witness ==
    /\ llm_calls = 2
    /\ pc = "check_limit"
    /\ compact_calls = 1
    /\ Len(last_prompt) = 4
    /\ IsCompactTurn(last_prompt[2])

IsPrefix(a, b) ==
    /\ Len(a) <= Len(b)
    /\ \A i \in 1..Len(a) :
          /\ a[i].role = b[i].role
          /\ a[i].content = b[i].content

\* C17: a step of the run that is not a compaction leaves the history it
\* found as a prefix of the history it leaves; the history is replaced only
\* by the compaction of a step whose usage is at or over the budget.
C17_AppendOnlyExceptCompaction ==
    [][/\ compact_calls' = compact_calls => IsPrefix(_messages, _messages')
       /\ ~IsPrefix(_messages, _messages') =>
             /\ pc = "check_limit"
             /\ usage >= max_prompt_tokens
             /\ compact_calls' = compact_calls + 1]_vars

\* two steps appended five turns to a history that was never compacted
C17_Witness ==
    /\ compact_calls = 0
    /\ Len(_messages) = 5
    /\ _messages[1].role = "user"
    /\ _messages[2].role = "assistant"
    /\ _messages[4].role = "assistant"

\* C18 as stated: appending to or popping from a list get_messages
\* returned never changes the session's history, and add_message and
\* set_messages never change the entries a returned list refers to.
C18_SnapshotIsACopy ==
    [][/\ last_op' \in {"caller_append", "caller_pop"} =>
             _messages' = _messages
       /\ last_op' \in {"add_message", "set_messages"} =>
             \A l \in snapshots : heap_lists'[l] = heap_lists[l]]_vars

\* C19 as stated: editing the role or content of an entry of a list
\* get_messages returned changes no entry of the session's history.
C19_SnapshotEditLeavesHistory ==
    [][last_op' = "caller_edit" => _messages' = _messages]_vars

\* the history a finished one-step run leaves when it runs alone: the query
\* (or the compact turn when the usage was at or over the budget), the
\* response, and the diagnostic or the tool results if there are any
HistoryAlone(f, r) ==
    IF f.llm_calls = 0
    THEN <<[role |-> "user", content |-> CHOOSE q \in QueriesFor(r) : TRUE]>>
    ELSE LET o == f.llm_output
             first == IF f.usage >= max_prompt_tokens
                      THEN [role |-> "user",
                            content |-> CompactHistory(
                                CHOOSE summary \in Summaries : TRUE)]
                      ELSE [role |-> "user",
                            content |-> CHOOSE q \in QueriesFor(r) : TRUE]
             calls == ReturnedToolCalls(o)
             results == [i \in 1..Len(calls) |->
                           [id |-> calls[i].id,
                            result |-> RegistryExecute(_tools, calls[i].name,
                                           calls[i].parameters).value]]
         IN  <<first, Assistant(o)>> \o
             (CASE TurnKind(o) = "final" -> << >>
                [] TurnKind(o) = "invalid" ->
                     <<[role |-> "user", content |-> InvalidResponse(o)]>>
                [] TurnKind(o) = "tool_calls" ->
                     <<[role |-> "user",
                        content |-> ToolCallResults(results)]>>)

\* each run that has returned left its session as it would alone
SessionsAsAlone ==
    /\ pc = "done" => _messages = HistoryAlone(Frame, current)
    /\ other.pc = "done" => other._messages = HistoryAlone(other, 3 - current)

\* C20: no step of either run changes the Agent's registry, system prompt,
\* max_steps or budget; a step of one run leaves the frame and the session
\* of the other run as they were; and under every interleaving each run
\* that has returned left its own session with the history it would have
\* had running alone.
C20_RunsAreIndependent ==
    [][/\ _tools' = _tools
       /\ _tools_order' = _tools_order
       /\ system_prompt' = system_prompt
       /\ max_steps' = max_steps
       /\ max_prompt_tokens' = max_prompt_tokens
       /\ current' = current => other' = other
       /\ SessionsAsAlone']_vars

\* both runs have returned after their steps were interleaved: the second
\* started while the first was between its model call and its return
C20_Witness ==
    /\ pc = "done"
    /\ other.pc = "done"
    /\ llm_calls = 1
    /\ other.llm_calls = 1
    /\ Len(_messages) = 3
    /\ Len(other._messages) = 2
    /\ _messages[1] # other._messages[1]
    /\ Len(last_prompt) = 2
    /\ Len(other.last_prompt) = 2

\* the run returned the answer of a valid output without tool calls
EndedWithAnswer ==
    /\ pc = "done"
    /\ turn_kinds # << >>
    /\ Last(turn_kinds) = "final"

\* C21 as stated: the value a run returns with a final answer is never the
\* value "Max step reached" that a run returns on step exhaustion.
C21_SentinelNeverAnAnswer ==
    EndedWithAnswer => final_response # MaxStepReached

\* part occurs in text as a run of consecutive tokens
ContainsSeq(text, part) ==
    \E i \in 0..(Len(text) - Len(part)) :
        SubSeq(text, i + 1, i + Len(part)) = part

\* a description names every registered skill with its short description
Enumerates(description) ==
    \A n \in DOMAIN _skills :
        ContainsSeq(description,
                    <<"## Skill: ", n, NL>> \o _skills[n].description)

\* the step of Agent.__init__ that follows the scan of the skill directory
SkillToolStep == init_pc = "skills" /\ init_pc' = "built"

\* C22 as stated: for every skill directory and every list of user tools,
\* the registry after the skill step has exactly one tool more than before
\* it, named load_skill, whose description enumerates every skill.
C22_ExactlyOneMoreTool ==
    [][SkillToolStep =>
          /\ DOMAIN _tools' = DOMAIN _tools \cup {"load_skill"}
          /\ Cardinality(DOMAIN _tools') = Cardinality(DOMAIN _tools) + 1
          /\ \A n \in DOMAIN _tools : _tools'[n] = _tools[n]
          /\ Enumerates(_tools'["load_skill"].description)]_vars

\* C22: the skill step registers one tool named load_skill exactly when at
\* least one skill was parsed, leaving every other tool as it was; its
\* description enumerates the name and short description of every
\* registered skill; it is one tool more than without the directory unless
\* a user tool was already named load_skill, which it replaces; with no
\* skill parsed the registry is the one built without the directory.
C22_LoadSkillToolWhenSkills ==
    [][SkillToolStep =>
          IF DOMAIN _skills = {}
          THEN _tools' = _tools
          ELSE /\ DOMAIN _tools' = DOMAIN _tools \cup {"load_skill"}
               /\ \A n \in DOMAIN _tools \ {"load_skill"} :
                     _tools'[n] = _tools[n]
               /\ _tools'["load_skill"].function = "load_skill"
               /\ Enumerates(_tools'["load_skill"].description)
               /\ Cardinality(DOMAIN _tools') =
                     IF "load_skill" \in DOMAIN _tools
                     THEN Cardinality(DOMAIN _tools)
                     ELSE Cardinality(DOMAIN _tools) + 1]_vars

\* an Agent built from two user tools and a directory of two skills
C22_Witness ==
    /\ init_pc = "built"
    /\ Cardinality(DOMAIN _skills) = 2
    /\ DOMAIN _tools = {"get_weather", "read_file", "load_skill"}
    /\ Enumerates(_tools["load_skill"].description)

\* C23: a load_skill call with the name of a registered skill returns that
\* skill's content; with any other name it returns, without raising, a
\* string that starts with "Tool call failed: " and names the skill asked
\* for; either way the registered skills and tools are left as they were.
C23_LoadSkillOutcome ==
    [][load_results' # load_results =>
          LET r == Last(load_results')
          IN  /\ ~r.outcome.exc
              /\ r.skill_name \in DOMAIN _skills =>
                    r.outcome.value = _skills[r.skill_name].content
              /\ r.skill_name \notin DOMAIN _skills =>
                    /\ StartsWith(r.outcome.value, <<"Tool call failed: ">>)
                    /\ ContainsSeq(r.outcome.value, <<r.skill_name>>)
              /\ _skills' = _skills
              /\ _tools' = _tools]_vars

\* load_skill was called with a registered name and with an unknown one
C23_Witness ==
    /\ Len(load_results) = 2
    /\ load_results[1].skill_name \in DOMAIN _skills
    /\ load_results[1].outcome.value = _skills[load_results[1].skill_name].content
    /\ load_results[2].skill_name \notin DOMAIN _skills
    /\ load_results[2].outcome.invoked = 1

\* the file is a well-formed skill definition
WellFormed(f) ==
    /\ f.readable
    /\ f.matched
    /\ {"name", "description"} \subseteq f.header

\* the files register has gone through
Processed == {i \in 1..skill_pos : TRUE}

\* C24 as stated: construction never fails, every well-formed file gone
\* through is registered under its name, and every malformed file gone
\* through was reported by a warning.
C24_MalformedSkippedWithWarning ==
    /\ init_pc # "raised"
    /\ \A i \in Processed :
          WellFormed(skill_files[i]) => skill_files[i].name \in DOMAIN _skills
    /\ \A i \in Processed :
          ~WellFormed(skill_files[i]) =>
              \E w \in 1..Len(warnings) :
                  ContainsSeq(warnings[w], <<skill_files[i].name>>)

\* C25: the limit check of a step compacts exactly when the usage of the
\* step's decision call is at or over the budget; a compaction happens
\* only there, makes one model call that is not a decision call and whose
\* input is one user message carrying the history as it was, without the
\* developer prompt; there is never more than one compaction per decision
\* call, and whatever usage the summarization call reports, the step goes
\* on to append the response without compacting again.
C25_CompactionExactlyWhenOverBudget ==
    [][/\ pc = "check_limit" =>
             /\ pc' = "append"
             /\ (compact_calls' = compact_calls + 1)
                   <=> (usage >= max_prompt_tokens)
             /\ (compact_calls' = compact_calls)
                   <=> (usage < max_prompt_tokens)
       /\ compact_calls' # compact_calls =>
             /\ pc = "check_limit"
             /\ llm_calls' = llm_calls
             /\ Len(compact_prompt') = 1
             /\ compact_prompt'[1].role = "user"
             /\ compact_prompt'[1].content[2] = _messages
             /\ compact_prompt'[1].content[1] = "Session history: "
       /\ pc = "append" =>
             /\ compact_calls' = compact_calls
             /\ pc' = "validate"
       /\ compact_calls' <= llm_calls']_vars

\* a summarization call reported a usage over the budget and the step
\* went on with one compaction for its one decision call
C25_Witness ==
    /\ pc = "validate"
    /\ usage >= max_prompt_tokens
    /\ compact_usage >= max_prompt_tokens
    /\ compact_calls = 2
    /\ llm_calls = 2
    /\ Len(compact_prompt) = 1
    /\ Len(compact_prompt[1].content[2]) = 3

\* C26 as stated: every call of a batch is handed to the pool and can
\* start at once: a submitted call that has not started is never kept
\* from starting by its siblings.
C26_NoCallWaitsForASibling ==
    \A i \in 1..Len(futures) :
        futures[i].state = "queued" => ENABLED WorkerStart(i)

\* a FileSession call has just returned
FileCallReturned == fs_state \in {"constructed", "loaded", "added", "set"}

\* C27: right after construction and after every add_message or
\* set_messages call that returns, the file <session_dir>/<id>.json exists
\* and reads back as the id and the ordered messages of the session in
\* memory.
C27_FileHoldsSessionAfterMutation ==
    FileCallReturned =>
        /\ session_file.exists
        /\ session_file.name = fs_id \o <<".json">>
        /\ session_file.complete
        /\ JsonLoad(session_file.text).id = fs_id
        /\ JsonLoad(session_file.text).messages = _messages

\* an entry with a quote and one with a backslash were added and saved
C27_Witness ==
    /\ fs_state = "added"
    /\ Len(_messages) = 2
    /\ _messages[1].content = <<Quote, "a">>
    /\ _messages[2].content = <<Backslash, "n">>
    /\ fs_id = <<"s", Quote>>

\* the model call that follows a step that compacted
CallAfterCompaction ==
    /\ pc = "loop"
    /\ pc' = "check_limit"
    /\ llm_calls >= 1
    /\ IsOverLimit(usage, max_prompt_tokens)

\* the prompt of that call had the history not been replaced: the history
\* that was summarized, then what the step appended after compacting
PromptWithoutCompaction ==
    BuildMessages(compact_prompt[1].content[2] \o Tail(_messages))

\* C28 as stated: the prompt of the model call after a compaction counts
\* strictly fewer tokens than the prompt the same call would have had
\* without the compaction.
C28_CompactionLowersPromptTokens ==
    [][CallAfterCompaction =>
          TokenCount(last_prompt') < TokenCount(PromptWithoutCompaction)]_vars

\* the output the step holds is schema-valid and has a tool call
HoldsToolCalls ==
    /\ LLMOutputValid(llm_output)
    /\ ReturnedToolCalls(llm_output) # << >>

\* the mixed output of LoopOutputs: a message and a tool call
MixedOutput ==
    Output(<<Msg(<<"a">>), Call("c1", "get_weather", NotJsonParams)>>)

\* C29: a schema-valid output with at least one tool call, with or without
\* Message items, is never answered from: every one of its tool calls is
\* submitted, the step ends by appending the aggregated results as one user
\* turn and going back to the loop head with the step counted and no return
\* value set; the run ends only from an output without tool calls, whose
\* texts alone make the return value, or from the exhausted step budget.
C29_ToolCallTurnNeverFinal ==
    [][/\ pc = "validate" /\ HoldsToolCalls =>
            /\ pc' = "submit"
            /\ final_response' = NoText
            /\ _messages' = _messages
       /\ pc = "submit" /\ pc' = "collect" =>
            /\ Len(futures') = Len(ReturnedToolCalls(llm_output))
            /\ \A i \in 1..Len(futures') :
                  futures'[i].tool_call = ReturnedToolCalls(llm_output)[i]
       /\ pc \in {"submit", "collect"} =>
            /\ HoldsToolCalls
            /\ final_response' = NoText
            /\ pc' \in {"submit", "collect", "loop"}
       /\ pc = "collect" /\ pc' = "loop" =>
            /\ \A i \in 1..Len(futures) : futures[i].collected
            /\ Len(tool_call_results) = Len(ReturnedToolCalls(llm_output))
            /\ _messages' = Append(_messages,
                  [role |-> "user",
                   content |-> ToolCallResults(tool_call_results)])
            /\ step' = step + 1
       /\ pc # "done" /\ pc' = "done" =>
            \/ /\ pc = "validate"
               /\ LLMOutputValid(llm_output)
               /\ ReturnedToolCalls(llm_output) = << >>
               /\ final_response' = Join(NL, MessageTexts(llm_output))
            \/ /\ pc = "loop"
               /\ step = max_steps
               /\ final_response' = MaxStepReached]_vars

\* a turn with a message and a tool call was followed by its results and a
\* second model call, whose answer without any text was returned as it is
C29_Witness ==
    /\ pc = "done"
    /\ turn_kinds = <<"tool_calls", "final">>
    /\ Len(_messages) = 4
    /\ _messages[2].role = "assistant"
    /\ _messages[2].content = MixedOutput
    /\ _messages[3].role = "user"
    /\ _messages[3].content[1] = "Tool call results: "
    /\ Len(_messages[3].content[2]) = 1
    /\ llm_output = Output(<< >>)
    /\ final_response = NoText

\* a tool call of the batch in flight never returns
SomeHung == \E i \in 1..Len(futures) : futures[i].state = "hung"

\* C30: a run makes at most max_steps decision calls and at most one
\* summarization call per decision call; when every model call and every
\* handler returns it ends, with an answer or with the sentinel; and from
\* the moment a tool call of a batch never returns, the run stays in that
\* batch: no further model call, no return.
C30_TerminatesUnlessAHandlerHangs ==
    /\ [](llm_calls <= max_steps /\ compact_calls <= llm_calls)
    /\ <>(pc = "done" \/ SomeHung)
    /\ [][SomeHung =>
            /\ \E i \in 1..Len(futures') : futures'[i].state = "hung"
            /\ llm_calls' = llm_calls
            /\ compact_calls' = compact_calls
            /\ pc' \in {"submit", "collect"}]_vars

\* a run of MaxStepsBound steps, each with a summarization, ended with the
\* sentinel
C30_Witness ==
    /\ pc = "done"
    /\ max_steps = MaxStepsBound
    /\ llm_calls = MaxStepsBound
    /\ compact_calls = MaxStepsBound
    /\ final_response = MaxStepReached
    /\ \A i \in 1..Len(futures) : futures[i].state = "done"

\* the number of developer messages of a prompt
DeveloperMessages(prompt) ==
    Cardinality({i \in 1..Len(prompt) : prompt[i].role = "developer"})

\* C31: the prompt of every decision call is one developer message, the
\* system prompt, followed by the session history as it is at the call; the
\* developer message is the only one of the prompt, and every entry of the
\* session has role user or assistant.
C31_DeveloperPromptOncePerCall ==
    [][/\ llm_calls' # llm_calls =>
            /\ Len(last_prompt') = Len(_messages) + 1
            /\ last_prompt'[1].role = "developer"
            /\ last_prompt'[1].content = system_prompt
            /\ SubSeq(last_prompt', 2, Len(last_prompt')) = _messages
            /\ DeveloperMessages(last_prompt') = 1
       /\ \A i \in 1..Len(_messages') :
            _messages'[i].role \in {"user", "assistant"}]_vars

\* the second decision call of a run: its prompt is the developer message
\* and the three entries of the session
C31_Witness ==
    /\ pc = "check_limit"
    /\ llm_calls = 2
    /\ Len(last_prompt) = 4
    /\ last_prompt[1].role = "developer"
    /\ Len(_messages) = 3

\* a user entry the run writes at the end of a step or at its start
ClosesAStep(m) ==
    /\ m.role = "user"
    /\ \/ m.content \in Queries
       \/ m.content[1] = "Invalid response format: "
       \/ m.content[1] = "Tool call results: "

\* C32: at every decision call, compaction or not, the history sent ends
\* with a user entry: the query, a validation diagnostic or the results of
\* a batch; it never ends with an assistant entry.
C32_PromptEndsWithUserEntry ==
    [][llm_calls' # llm_calls =>
          /\ _messages # << >>
          /\ ClosesAStep(Last(_messages))
          /\ Last(last_prompt') = Last(_messages)]_vars

\* the call after a step that compacted and then ran a batch: the history
\* is the compact turn, the response and the results
C32_Witness ==
    /\ pc = "check_limit"
    /\ llm_calls = 2
    /\ compact_calls = 1
    /\ Len(last_prompt) = 4
    /\ IsCompactTurn(last_prompt[2])
    /\ last_prompt[3].role = "assistant"
    /\ last_prompt[4].role = "user"
    /\ last_prompt[4].content[1] = "Tool call results: "

\* entries 2j and 2j+1 of the history are the output of step j and the
\* user entry that closed the step
StepPair(j) ==
    /\ _messages[2 * j].role = "assistant"
    /\ _messages[2 * j + 1].role = "user"
    /\ _messages[2 * j + 1].content[1]
          \in {"Invalid response format: ", "Tool call results: "}

\* C33: while no compaction has fired, the history is the query followed by
\* one assistant/user pair per completed step; a run that returned an
\* answer from its s-th model call holds 2s entries, its last the answer's
\* assistant entry, and a run that exhausted max_steps = k holds 2k+1.
C33_HistoryGrowsTwoPerStep ==
    compact_calls = 0 =>
        /\ pc = "loop" =>
              /\ Len(_messages) = 2 * step + 1
              /\ _messages[1].role = "user"
              /\ _messages[1].content \in Queries
              /\ \A j \in 1..step : StepPair(j)
        /\ EndedWithAnswer =>
              /\ Len(_messages) = 2 * llm_calls
              /\ Last(_messages).role = "assistant"
              /\ \A j \in 1..(llm_calls - 1) : StepPair(j)
        /\ pc = "done" /\ ~EndedWithAnswer =>
              /\ llm_calls = max_steps
              /\ Len(_messages) = 2 * max_steps + 1

\* a run of MaxStepsBound steps without compaction, a batch of two calls
\* among them, ended on the step budget
C33_Witness ==
    /\ pc = "done"
    /\ compact_calls = 0
    /\ max_steps = MaxStepsBound
    /\ llm_calls = MaxStepsBound
    /\ Len(_messages) = 2 * MaxStepsBound + 1
    /\ Len(tool_call_results) = 2
    /\ final_response = MaxStepReached

\* the query of the second run, as a history entry
SecondQuery(m) ==
    /\ m.role = "user"
    /\ m.content \in OtherQueries

\* C34: a run given the session of an earlier run starts by appending its
\* query to the history it finds, every earlier entry kept in place, and
\* the prompt of its first model call is the developer message, the whole
\* history the first run left, in order, and the new query.
C34_SecondRunAppendsToHistory ==
    [][/\ current = 1 /\ current' = 2 =>
            /\ Len(_messages') = Len(_messages) + 1
            /\ SubSeq(_messages', 1, Len(_messages)) = _messages
            /\ SecondQuery(Last(_messages'))
            /\ llm_calls' = 0
       /\ current = 2 /\ llm_calls = 0 /\ llm_calls' = 1 =>
            /\ Len(last_prompt') = Len(other._messages) + 2
            /\ last_prompt'[1].role = "developer"
            /\ SubSeq(last_prompt', 2, Len(last_prompt') - 1) = other._messages
            /\ SecondQuery(Last(last_prompt'))]_vars

\* the first model call of a second run on a session whose first run ran a
\* tool call and ended on the step budget
C34_Witness ==
    /\ current = 2
    /\ pc = "check_limit"
    /\ llm_calls = 1
    /\ other.pc = "done"
    /\ other.final_response = MaxStepReached
    /\ Len(other._messages) = 3
    /\ Len(last_prompt) = 5
    /\ last_prompt[2].content \in Queries
    /\ last_prompt[5].content \in OtherQueries

\* the handler invocations a tool call is due: one when its name is
\* registered and its parameters validate, none otherwise
DueInvocations(call) ==
    IF /\ call.name \in DOMAIN _tools
       /\ ModelValidateJson(_tools[call.name].parameters, call.parameters)
    THEN 1
    ELSE 0

\* C35: the futures of a step are, one for one, the tool calls of the
\* output the step holds; a call that has been executed invoked its handler
\* once when its name is registered and its parameters validate and not at
\* all otherwise, a call not yet executed invoked nothing; an output that
\* failed validation has no futures; and when the run has returned every
\* call has finished and none is executed afterwards.
C35_AtMostOneInvocationPerCall ==
    [][/\ Len(futures') <= Len(ReturnedToolCalls(llm_output'))
       /\ \A i \in 1..Len(futures') :
            /\ futures'[i].tool_call = ReturnedToolCalls(llm_output')[i]
            /\ futures'[i].invoked =
                  IF futures'[i].state = "done"
                  THEN DueInvocations(futures'[i].tool_call)
                  ELSE 0
       /\ ~LLMOutputValid(llm_output') => futures' = << >>
       /\ pc' = "done" =>
            \A i \in 1..Len(futures') : futures'[i].state = "done"
       /\ pc = "done" => futures' = futures]_vars

\* a batch of two ended: the call for a known location invoked its handler
\* once, and so did the call whose handler raised
C35_Witness ==
    /\ pc = "loop"
    /\ Len(futures) = 2
    /\ futures[1].state = "done"
    /\ futures[2].state = "done"
    /\ futures[1].invoked = 1
    /\ futures[2].invoked = 1
    /\ StartsWith(futures[2].result, <<"Tool call failed: ">>)

\* the orders in which n calls may complete
Orders(n) ==
    {p \in [1..n -> 1..n] : \A i, j \in 1..n : i # j => p[i] # p[j]}

\* C36: for a batch in which two calls or more carry the same id, every
\* call has been executed when the batch is done and the tool-result turn
\* holds one entry per call: the entries are, in some order, the id and the
\* stored result of each call, none merged with or overwritten by another.
C36_SameIdsKeepOneEntryPerCall ==
    LET calls == ReturnedToolCalls(llm_output)
        results == ResultsOf(Last(_messages))
    IN  (BatchDone /\ ~DistinctIds(calls)) =>
          /\ Len(futures) = Len(calls)
          /\ \A i \in 1..Len(calls) :
                /\ futures[i].tool_call = calls[i]
                /\ futures[i].state = "done"
          /\ Last(_messages).content[1] = "Tool call results: "
          /\ Len(results) = Len(calls)
          /\ \E p \in Orders(Len(calls)) :
                \A i \in 1..Len(calls) :
                   /\ results[p[i]].id = calls[i].id
                   /\ results[p[i]].result = futures[i].result

\* two calls of one id with different outcomes, the second completing first
C36_Witness ==
    LET calls == ReturnedToolCalls(llm_output)
        results == ResultsOf(Last(_messages))
    IN  /\ BatchDone
        /\ Len(calls) = 2
        /\ calls[1].id = calls[2].id
        /\ futures[1].result # futures[2].result
        /\ Len(results) = 2
        /\ results[1].result = futures[2].result
        /\ results[2].result = futures[1].result

\* C37: loading a FileSession right after a call on it returned gives a
\* session of the same id, the same created_at and the same ordered
\* messages, and leaves the file as it was; a load succeeds only for an id
\* whose file is there, and the load of an id without a file raises
\* FileNotFoundError and leaves the directory as it was.
C37_SaveLoadRoundTrips ==
    [][/\ FileCallReturned /\ fs_state' = "loaded" =>
            /\ fs_id' = fs_id
            /\ created_at' = created_at
            /\ _messages' = _messages
            /\ session_file' = session_file
       /\ fs_state' = "loaded" =>
            /\ session_file.exists
            /\ session_file.name = fs_id' \o <<".json">>
       /\ fs_state' = "not_found" =>
            /\ session_file' = session_file
            /\ fs_id' = fs_id
            /\ _messages' = _messages]_vars

\* a session created off the whole second, with two entries that need
\* escaping, was loaded back from its file
C37_Witness ==
    /\ fs_state = "loaded"
    /\ fs_id = <<"s", Quote>>
    /\ created_at.microsecond = "000007"
    /\ Len(_messages) = 2
    /\ _messages[1].content = <<Backslash, "n">>
    /\ _messages[2].content = <<NL>>

\* C38 as stated: every identifier list_sessions returns for a directory
\* is one that load finds a file for in that directory, and the list has
\* one identifier per saved session.
C38_ListedIdsLoad ==
    /\ \A i \in 1..Len(ListSessions(session_file)) :
          Exists(session_file, ListSessions(session_file)[i])
    /\ Len(ListSessions(session_file)) = IF session_file.exists THEN 1 ELSE 0

\* the failed validations of the call so far: each left two messages
SchemaFailures == (Len(schema_messages) - 1) \div 2

\* C39: call_llm_with_schema makes at most max_retries model calls; it
\* returns the parsed value of the first response that validates, every
\* earlier response having failed, and makes no further call; after each
\* failed validation it appends the failing output as an assistant message
\* and the error feedback as a user message, and the next call is made with
\* that conversation; it raises ValueError once max_retries responses have
\* all failed, and only then.
C39_RetriesWithFeedbackUnderCap ==
    /\ [](schema_pc # "idle" => schema_calls <= max_retries)
    /\ [](schema_pc = "returned" =>
            /\ SchemaValid(schema_output)
            /\ schema_result.kind = "value"
            /\ schema_result.answer = schema_output.answer
            /\ SchemaFailures = schema_calls - 1)
    /\ [](schema_pc = "raised" =>
            /\ schema_result.kind = "ValueError"
            /\ schema_calls = max_retries
            /\ SchemaFailures = max_retries)
    /\ [][/\ schema_pc = "returned" => schema_calls' = schema_calls
          /\ (schema_pc = "validate" /\ ~SchemaValid(schema_output)) =>
                /\ schema_pc' = "loop"
                /\ schema_messages' =
                      schema_messages \o
                        <<[role |-> "assistant", content |-> schema_output],
                          [role |-> "user",
                           content |->
                             ErrorFeedback(SchemaError(schema_output))]>>
          /\ schema_calls' # schema_calls =>
                /\ schema_calls' = schema_calls + 1
                /\ schema_prompt' = schema_messages
          /\ (schema_pc = "loop" /\ SchemaFailures = max_retries) =>
                schema_pc' = "raised"
          /\ schema_pc' = "raised" =>
                (schema_pc = "loop" /\ SchemaFailures = max_retries)
         ]_vars

C39_Witness ==
    /\ schema_pc = "returned"
    /\ max_retries = 3
    /\ schema_calls = 2
    /\ Len(schema_messages) = 3
    /\ schema_messages[2].content = SchemaOutput(TRUE, "E")
    /\ schema_prompt = schema_messages
====
